---- MODULE Spec2Model ----
(***************************************************************************)
(* A model of the Douyin statistics scrapers:                              *)
(*   scrape_from_url_excel.py   (prog = "excel")                           *)
(*   douyin_video_analysis.py   (prog = "analysis")                        *)
(*   scrape_from_Jingxuan.py    (prog = "jingxuan")                        *)
(* and of their pure helper functions (prog = "fn").                       *)
(*                                                                         *)
(* Non-ASCII characters of the source are written with ASCII stand-ins:    *)
(*   "%" for U+4E07 (wan, ten thousand), ";" for the full-width comma,     *)
(*   "~" for the em dash, and "<dianzan>", "<pinglun>", "<fenxiang>",      *)
(*   "<shoucang>" for the four metric labels.                              *)
(***************************************************************************)
EXTENDS Integers, Sequences, FiniteSets, TLC

VARIABLES
    prog,        \* which script is running
    pc,          \* position of the running script
    runs,        \* how many times the script was started on the same file
    \* ---- scrape_from_url_excel.main
    xlsx,        \* the persisted workbook: row index -> row
    df,          \* the DataFrame in memory
    idx,         \* loop variable of "for idx in range(start, end)"
    attempt,     \* loop variable of the retry loop
    last_error,  \* None (<<>>) or <<reason>>
    stats,       \* None (<<>>) or <<record>>
    logbuf,      \* Chrome's performance log, drained by driver.get_log
    hist,        \* history of the current item: what each attempt did
    fetcher,     \* None (<<>>), or <<f>> when every page load answers with
                 \* the detail response f[idx] of its row and nothing else
    \* ---- douyin_video_analysis.main
    all_video_ids,  \* the set of identifiers collected
    max_total,      \* the cap on its size
    source,         \* the feed page being scrolled: 1 (jingxuan), 2 (recommend)
    no_new_rounds,  \* the strike count of scroll_and_collect_on_page
    todo,           \* the identifiers the detail loop has still to fetch
    results,        \* the records the detail loop has appended
    json_out,       \* the output file: None (<<>>) until it is written
    scanlog,        \* history of the scans of the current page
    \* ---- scrape_from_Jingxuan.process_excel
    jx_file,     \* the persisted workbook: row number -> row
    ws,          \* the worksheet in memory
    row,         \* loop variable of "for row in range(2, max_row + 1)"
    jx_results,  \* the list "results" of process_excel
    jx_json,     \* the JSON file: None (<<>>) until it is written
    \* ---- the pure functions, called on their own
    fn_in,       \* the call: function name and arguments
    fn_out,      \* its result, None (<<>>) before the call
    \* ---- the three scripts
    slept        \* None (<<>>) until the run has fetched the page of an item;
                 \* then <<p>>, p the blocking pause the script slept since
                 \* the last fetch ended: "" (none), "retry" (before the
                 \* next pass of a retry loop), "item" (before the next item)

xlVars == <<xlsx, df, idx, attempt, last_error, stats, logbuf, hist, fetcher>>
anVars == <<all_video_ids, max_total, source, no_new_rounds, todo, results,
            json_out, scanlog>>
jxVars == <<jx_file, ws, row, jx_results, jx_json>>
fnVars == <<fn_in, fn_out>>
vars == <<prog, pc, runs, slept, xlVars, anVars, jxVars, fnVars>>

(***************************************************************************)
(* Bounds of the model.                                                    *)
(***************************************************************************)
NRows == 3
MaxRuns == 2

(***************************************************************************)
(* Python values.  One record shape for every value, so that any two       *)
(* values can be compared: t is the type tag, n the number of an int or    *)
(* bool, s the text of a str, items the entries of a dict (key, value) or  *)
(* of a list (key "").                                                     *)
(***************************************************************************)
PyNone == [t |-> "none", n |-> 0, s |-> "", items |-> <<>>]
PyInt(i) == [t |-> "int", n |-> i, s |-> "", items |-> <<>>]
PyBool(b) == [t |-> "bool", n |-> IF b THEN 1 ELSE 0, s |-> "", items |-> <<>>]
PyStr(x) == [t |-> "str", n |-> 0, s |-> x, items |-> <<>>]
\* float("nan"), what pandas reads from an empty cell
PyNaN == [t |-> "nan", n |-> 0, s |-> "", items |-> <<>>]
KV(k, v) == [k |-> k, v |-> v]
PyDict(kvs) == [t |-> "dict", n |-> 0, s |-> "", items |-> kvs]
PyList(vs) == [t |-> "list", n |-> 0, s |-> "",
               items |-> [i \in 1..Len(vs) |-> KV("", vs[i])]]
\* n > 0 dicts of the one key "c", each the value of the one before, around
\* the value v: {"c": {"c": ... {"c": v}}}, written as one value.
PyNest(n, v) == [t |-> "nest", n |-> n, s |-> "", items |-> <<KV("c", v)>>]

\* Optional[...] of the type hints: None is <<>>, a value x is <<x>>.
None == <<>>
Some(x) == <<x>>

\* bool(v): the truth value Python's "not", "or" and "if" give a value.
Truthy(v) ==
    CASE v.t = "none" -> FALSE
      [] v.t \in {"int", "bool"} -> v.n # 0
      [] v.t = "str" -> v.s # ""
      [] v.t = "nan" -> TRUE
      [] OTHER -> v.items # <<>>

\* "k in d" for a dict d.
HasKey(d, k) == \E i \in 1..Len(d.items) : d.items[i].k = k

\* d.get(k) for a dict d: None when the key is missing.
Get(d, k) ==
    IF HasKey(d, k)
    THEN d.items[CHOOSE i \in 1..Len(d.items) : d.items[i].k = k].v
    ELSE PyNone

\* "a or b".
PyOr(a, b) == IF Truthy(a) THEN a ELSE b

\* The decimal digits of a natural number, as text.
RECURSIVE NatToStr(_)
NatToStr(i) ==
    LET d == SubSeq("0123456789", (i % 10) + 1, (i % 10) + 1)
    IN IF i < 10 THEN d ELSE NatToStr(i \div 10) \o d

\* str(v) for the values an aweme_id can be.
PyToStr(v) ==
    CASE v.t = "str" -> v.s
      [] v.t = "int" -> IF v.n < 0 THEN "-" \o NatToStr(-v.n) ELSE NatToStr(v.n)
      [] v.t = "bool" -> IF v.n = 1 THEN "True" ELSE "False"
      [] v.t = "none" -> "None"
      [] v.t = "dict" -> "{..}"
      [] OTHER -> "[..]"

(***************************************************************************)
(* Text helpers (Python str methods used by the scripts).                  *)
(***************************************************************************)
CharAt(s, i) == SubSeq(s, i, i)

\* "k in s" for two strings.
IsSubstr(k, s) ==
    \E i \in 1..(Len(s) - Len(k) + 1) : SubSeq(s, i, i + Len(k) - 1) = k

StartsWith(s, p) == Len(s) >= Len(p) /\ SubSeq(s, 1, Len(p)) = p

\* s.strip(): whitespace removed at both ends.
RECURSIVE LStrip(_)
LStrip(s) == IF s # "" /\ CharAt(s, 1) = " " THEN LStrip(Tail(s)) ELSE s
RECURSIVE RStrip(_)
RStrip(s) ==
    IF s # "" /\ CharAt(s, Len(s)) = " "
    THEN RStrip(SubSeq(s, 1, Len(s) - 1)) ELSE s
Strip(s) == RStrip(LStrip(s))

\* s.strip(chars) restricted to the right end and to the left end.
RECURSIVE RStripChars(_, _)
RStripChars(s, chars) ==
    IF s # "" /\ CharAt(s, Len(s)) \in chars
    THEN RStripChars(SubSeq(s, 1, Len(s) - 1), chars) ELSE s
RECURSIVE LStripChars(_, _)
LStripChars(s, chars) ==
    IF s # "" /\ CharAt(s, 1) \in chars
    THEN LStripChars(Tail(s), chars) ELSE s

(***************************************************************************)
(* scrape_from_url_excel.py                                                *)
(***************************************************************************)
START_ROW == 1
MAX_RETRY_PER_URL == 2

\* The non-whitespace run that starts at position i of text.
RECURSIVE NonSpaceRun(_, _)
NonSpaceRun(text, i) ==
    IF i > Len(text) \/ CharAt(text, i) = " " THEN ""
    ELSE CharAt(text, i) \o NonSpaceRun(text, i + 1)

\* extract_clean_url: the first http(s) link of a cell, None when the cell
\* is not a string or holds no link.
extract_clean_url(raw) ==
    IF raw.t # "str" THEN None
    ELSE LET text == Strip(raw.s)
             \* re.search(r"(https?://[^\s]+)", text)
             Hit(i) == \E p \in {"http://", "https://"} :
                          /\ StartsWith(SubSeq(text, i, Len(text)), p)
                          /\ NonSpaceRun(text, i + Len(p)) # ""
             hits == {i \in 1..Len(text) : Hit(i)}
         IN IF text = "" \/ hits = {} THEN None
            ELSE LET m == CHOOSE i \in hits : \A j \in hits : i <= j
                     url == LStripChars(RStripChars(NonSpaceRun(text, m),
                                                    {".", ",", ";"}),
                                        {".", ",", ";"})
                 IN IF url = "" THEN None ELSE Some(url)

\* One entry of the performance log that is a Network.responseReceived
\* event: origin says which page load produced it (a history tag the code
\* does not see), url and mime are the response's, body_ok says whether
\* Network.getResponseBody gives a body that json.loads accepts.
LogEntry(origin, url, mime, body_ok, data) ==
    [origin |-> origin, url |-> url, mime |-> mime, body_ok |-> body_ok,
     data |-> data]

RECURSIVE SelectSeq2(_, _)
SelectSeq2(seq, keep) ==
    IF seq = <<>> THEN <<>>
    ELSE (IF keep[1] THEN <<Head(seq)>> ELSE <<>>)
         \o SelectSeq2(Tail(seq), Tail(keep))

\* collect_json_responses: the JSON responses among the entries that
\* driver.get_log("performance") returns.
collect_json_responses(entries) ==
    SelectSeq2(entries,
               [i \in 1..Len(entries) |->
                   IsSubstr("json", entries[i].mime) /\ entries[i].body_ok])

\* "k in json.dumps(data)": k occurs in a key or in a string of the tree.
RECURSIVE DumpContains(_, _)
DumpContains(v, k) ==
    CASE v.t = "str" -> IsSubstr(k, v.s)
      [] v.t \in {"dict", "list"} ->
            \E i \in 1..Len(v.items) :
                IsSubstr(k, v.items[i].k) \/ DumpContains(v.items[i].v, k)
      [] OTHER -> FALSE

target_keys ==
    {"digg_count", "comment_count", "share_count", "collect_count", "play_count"}

\* find_aweme_detail_from_logs, on the responses collected: the response
\* whose data is returned, None when there is none.
find_aweme_detail_from_logs(responses) ==
    LET n == Len(responses)
        IsDetail(i) == /\ IsSubstr("/aweme/v1/web/aweme/detail", responses[i].url)
                       /\ responses[i].data.t = "dict"
                       /\ (HasKey(responses[i].data, "aweme_detail")
                           \/ HasKey(responses[i].data, "aweme_list"))
        HasAll(i) == /\ responses[i].data.t = "dict"
                     /\ \A k \in target_keys : DumpContains(responses[i].data, k)
        First(P(_)) == CHOOSE i \in 1..n : P(i) /\ \A j \in 1..(i - 1) : ~P(j)
    IN IF \E i \in 1..n : IsDetail(i) THEN Some(responses[First(IsDetail)])
       ELSE IF \E i \in 1..n : HasAll(i) THEN Some(responses[First(HasAll)])
       ELSE None

\* What a call returns: a value, or an exception that propagates.
Return(v) == [raised |-> FALSE, val |-> v]
Raise == [raised |-> TRUE, val |-> None]

\* parse_stats_from_aweme_detail: .get on a statistics or author value that
\* is not a dict raises AttributeError.
parse_stats_from_aweme_detail(data) ==
    IF data.t # "dict" THEN Return(None)
    ELSE LET detail == Get(data, "aweme_detail")
             aweme_list == PyOr(Get(data, "aweme_list"), PyList(<<>>))
             aweme == IF ~Truthy(detail) /\ aweme_list.t = "list"
                         /\ Truthy(aweme_list)
                      THEN aweme_list.items[1].v ELSE detail
         IN IF aweme.t # "dict" THEN Return(None)
            ELSE LET st == PyOr(Get(aweme, "statistics"), PyDict(<<>>))
                     author == PyOr(Get(aweme, "author"), PyDict(<<>>))
                 IN IF st.t # "dict" \/ author.t # "dict" THEN Raise
                    ELSE Return(Some(
                           [aweme_id |-> Get(aweme, "aweme_id"),
                            author |-> Get(author, "nickname"),
                            digg |-> Get(st, "digg_count"),
                            comment |-> Get(st, "comment_count"),
                            share |-> Get(st, "share_count"),
                            collect |-> Get(st, "collect_count"),
                            play |-> Get(st, "play_count")]))

CountFields == {"digg", "comment", "share", "collect", "play"}
StatFields == {"aweme_id", "author"} \cup CountFields

(***************************************************************************)
(* The workbook.  A row holds the URL cell and the nine columns of         *)
(* ensure_stat_columns; an empty cell of the file is PyNone.               *)
(***************************************************************************)
Row(url, aweme_id, author, digg, comment, share, collect, play, ok, err) ==
    [URL |-> url, aweme_id |-> aweme_id, author |-> author, digg |-> digg,
     comment |-> comment, share |-> share, collect |-> collect,
     play |-> play, ok |-> ok, err |-> err]

Columns ==
    {"URL", "aweme_id", "author", "digg", "comment", "share", "collect",
     "play", "ok", "err"}

\* A cell that shows nothing: None in memory, NaN as read from the file.
IsEmpty(v) == v.t \in {"none", "nan"}

\* pd.read_excel followed by ensure_stat_columns: an empty cell is NaN.
read_excel(file) ==
    [i \in DOMAIN file |->
        [c \in Columns |-> IF file[i][c].t = "none" THEN PyNaN ELSE file[i][c]]]

\* df.to_excel: None and NaN are written as empty cells.
to_excel(frame) ==
    [i \in DOMAIN frame |->
        [c \in Columns |-> IF IsEmpty(frame[i][c]) THEN PyNone ELSE frame[i][c]]]

\* Rows a workbook can hold before the first run: never processed, or filled
\* by hand or by an earlier run; with a link or with text that holds no link.
FreshRow(url) ==
    Row(url, PyNone, PyNone, PyNone, PyNone, PyNone, PyNone, PyNone,
        PyNone, PyNone)
FilledRow(url) ==
    Row(url, PyStr("7"), PyStr("bob"), PyInt(50), PyInt(4), PyInt(2),
        PyInt(3), PyInt(100), PyBool(TRUE), PyNone)
GoodUrl == PyStr(" see https://v.douyin.com/a, ")
InitRows == {FreshRow(GoodUrl), FilledRow(GoodUrl), FilledRow(PyStr("n/a"))}

(***************************************************************************)
(* What the platform can answer to a page load.                            *)
(***************************************************************************)
Statistics(digg, comment, share, collect, play) ==
    PyDict(<<KV("digg_count", digg), KV("comment_count", comment),
             KV("share_count", share), KV("collect_count", collect),
             KV("play_count", play)>>)
Aweme(id, author, st) ==
    PyDict(<<KV("aweme_id", id), KV("author", author), KV("statistics", st)>>)
Bob == PyDict(<<KV("nickname", PyStr("bob"))>>)
StatsFull == Statistics(PyInt(5), PyInt(1), PyInt(2), PyInt(3), PyInt(9))

DetailPayloads ==
    { \* every statistic present
      PyDict(<<KV("aweme_detail", Aweme(PyStr("7"), Bob, StatsFull))>>),
      \* no author, a negative count, a count given as text, the other
      \* statistics missing
      PyDict(<<KV("aweme_detail",
                  Aweme(PyInt(7), PyNone,
                        PyDict(<<KV("digg_count", PyInt(-3)),
                                 KV("comment_count", PyStr("12"))>>)))>>),
      \* every statistic null
      PyDict(<<KV("aweme_detail",
                  Aweme(PyStr("7"), Bob,
                        Statistics(PyNone, PyNone, PyNone, PyNone, PyNone)))>>),
      \* statistics that is a list, not a mapping
      PyDict(<<KV("aweme_detail",
                  Aweme(PyStr("7"), Bob, PyList(<<PyInt(1)>>)))>>),
      \* an author that is a string, not a mapping
      PyDict(<<KV("aweme_detail", Aweme(PyStr("7"), PyStr("bob"), StatsFull))>>),
      \* aweme_detail that is no mapping
      PyDict(<<KV("aweme_detail", PyStr("gone"))>>),
      \* aweme_detail null, the record in aweme_list
      PyDict(<<KV("aweme_detail", PyNone),
               KV("aweme_list", PyList(<<Aweme(PyStr("7"), Bob, StatsFull)>>))>>) }

\* A feed of other videos, as the home page and the related-videos panel
\* request it.
FeedPayload ==
    PyDict(<<KV("aweme_list", PyList(<<Aweme(PyStr("99"), Bob, StatsFull)>>))>>)
\* JSON with the statistics keys but no aweme_detail / aweme_list.
StatsOnlyPayload == PyDict(<<KV("data", PyList(<<StatsFull>>))>>)

DetailUrl == "/aweme/v1/web/aweme/detail/?id=7"
FeedUrl == "/aweme/v1/web/tab/feed/"

Origin(i, a) == [idx |-> i, attempt |-> a]
\* the load of the home page before the loop
LoginOrigin == Origin(-1, 0)

\* The log entries one page load can produce by the time the log is read.
LoadEntries(o) ==
    {<<>>}
    \cup {<<LogEntry(o, DetailUrl, "application/json", TRUE, d)>> :
            d \in DetailPayloads}
    \cup {<<LogEntry(o, FeedUrl, "application/json", TRUE, FeedPayload)>>,
          <<LogEntry(o, FeedUrl, "text/json", TRUE, StatsOnlyPayload)>>,
          <<LogEntry(o, DetailUrl, "text/html", TRUE, FeedPayload)>>}

\* The entries that arrive after the log was read (a slow response).
LateEntries(o) ==
    {<<>>,
     <<LogEntry(o, DetailUrl, "application/json", TRUE,
                PyDict(<<KV("aweme_detail", Aweme(PyStr("7"), Bob, StatsFull))>>))>>}

\* The entries the home page leaves in the log while the user logs in.
LoginEntries(o) ==
    {<<>>, <<LogEntry(o, FeedUrl, "application/json", TRUE, FeedPayload)>>}

(***************************************************************************)
(* scrape_from_url_excel.main                                              *)
(***************************************************************************)
\* total_rows, start and end of main.
total_rows == NRows
start == IF START_ROW > 0 THEN START_ROW ELSE 0
end == total_rows            \* MAX_ROWS is None

\* History of the retry loop of the current row, kept for the properties only:
\* attempts made, the classification of the last one ("ok", a reason, or
\* "raise"), whether an earlier one was classified a success, the origin of
\* the response the last one used, the retry pauses slept, and the record the
\* last one parsed.
NoHist == [attempts |-> 0, last |-> "", earlier_ok |-> FALSE, used |-> None,
           pauses |-> 0, parsed |-> None]

\* Every statistic of the record is None (the "null" case).
all_null(rec) == \A k \in CountFields : rec[k].t = "none"

\* A pass of the retry loop that does not note that the page did not open.
AttemptBodyQuietOpen(open_ok, responses, stats_before) ==
    IF ~open_ok
    THEN [raised |-> FALSE, last_error |-> None,
          stats |-> stats_before, used |-> None, parsed |-> None]
    ELSE LET found == find_aweme_detail_from_logs(responses)
         IN IF found = None
            THEN [raised |-> FALSE, last_error |-> Some("no_aweme_detail"),
                  stats |-> stats_before, used |-> None, parsed |-> None]
            ELSE LET r == parse_stats_from_aweme_detail(found[1].data)
                     o == Some(found[1].origin)
                 IN IF r.raised
                    THEN [raised |-> TRUE, last_error |-> None,
                          stats |-> stats_before, used |-> o,
                          parsed |-> None]
                    ELSE IF r.val = None
                    THEN [raised |-> FALSE, last_error |-> Some("parse_fail"),
                          stats |-> None, used |-> o, parsed |-> None]
                    ELSE IF all_null(r.val[1])
                    THEN [raised |-> FALSE,
                          last_error |-> Some("all_null_stats"),
                          stats |-> r.val, used |-> o, parsed |-> r.val]
                    ELSE [raised |-> FALSE, last_error |-> None,
                          stats |-> r.val, used |-> o, parsed |-> r.val]

\* The body of one pass of the retry loop after driver.get (lines 283-315):
\* what it leaves in last_error and stats, whether an exception escapes it,
\* and (history) the origin of the response whose data it used and the
\* record it parsed from it.
AttemptBody(open_ok, responses, stats_before) ==
    IF ~open_ok
    THEN [raised |-> FALSE, last_error |-> Some("open_fail"),
          stats |-> stats_before, used |-> None, parsed |-> None]
    ELSE LET found == find_aweme_detail_from_logs(responses)
         IN IF found = None
            THEN [raised |-> FALSE, last_error |-> Some("no_aweme_detail"),
                  stats |-> stats_before, used |-> None, parsed |-> None]
            ELSE LET r == parse_stats_from_aweme_detail(found[1].data)
                     o == Some(found[1].origin)
                 IN IF r.raised
                    THEN [raised |-> TRUE, last_error |-> None,
                          stats |-> stats_before, used |-> o,
                          parsed |-> None]
                    ELSE IF r.val = None
                    THEN [raised |-> FALSE, last_error |-> Some("parse_fail"),
                          stats |-> None, used |-> o, parsed |-> None]
                    ELSE IF all_null(r.val[1])
                    THEN [raised |-> FALSE,
                          last_error |-> Some("all_null_stats"),
                          stats |-> r.val, used |-> o, parsed |-> r.val]
                    ELSE [raised |-> FALSE, last_error |-> None,
                          stats |-> r.val, used |-> o, parsed |-> r.val]

\* A write-back that adds the like count to the one the row holds.
MergeSuccessAdds(cur, rec) ==
    [cur EXCEPT
        !.aweme_id = IF rec.aweme_id.t # "none"
                     THEN PyStr(PyToStr(rec.aweme_id)) ELSE PyNone,
        !.author = rec.author,
        !.digg = IF cur.digg.t = "int" /\ rec.digg.t = "int"
                 THEN PyInt(cur.digg.n + rec.digg.n) ELSE rec.digg,
        !.comment = rec.comment,
        !.share = rec.share,
        !.collect = rec.collect,
        !.play = rec.play,
        !.ok = PyBool(TRUE),
        !.err = PyNone]

\* A write-back that leaves the error reason of the row as it was.
MergeSuccessKeepsReason(cur, rec) ==
    [cur EXCEPT
        !.aweme_id = IF rec.aweme_id.t # "none"
                     THEN PyStr(PyToStr(rec.aweme_id)) ELSE PyNone,
        !.author = rec.author,
        !.digg = rec.digg,
        !.comment = rec.comment,
        !.share = rec.share,
        !.collect = rec.collect,
        !.play = rec.play,
        !.ok = PyBool(TRUE)]

\* The write-back of a successfully parsed record (lines 341-351).
MergeSuccess(cur, rec) ==
    [cur EXCEPT
        !.aweme_id = IF rec.aweme_id.t # "none"
                     THEN PyStr(PyToStr(rec.aweme_id)) ELSE PyNone,
        !.author = rec.author,
        !.digg = rec.digg,
        !.comment = rec.comment,
        !.share = rec.share,
        !.collect = rec.collect,
        !.play = rec.play,
        !.ok = PyBool(TRUE),
        !.err = PyNone]

\* A failure record that also blanks the statistics of the row.
MergeFailureWipes(cur, reason) ==
    [cur EXCEPT !.ok = PyBool(FALSE), !.err = PyStr(reason),
                !.digg = PyNone, !.comment = PyNone, !.share = PyNone,
                !.collect = PyNone, !.play = PyNone]

\* The record of a failure (lines 272-273, 329-330, 336-337).
MergeFailure(cur, reason) ==
    [cur EXCEPT !.ok = PyBool(FALSE), !.err = PyStr(reason)]

\* A retry loop that runs one pass too many.
loop_continues_one_more(err, a) == err # None /\ a <= MAX_RETRY_PER_URL

\* Whether the retry loop goes on after pass a left err in last_error:
\* "for attempt in range(1, MAX_RETRY_PER_URL + 1)" and its break.
loop_continues(err, a) == err # None /\ a < MAX_RETRY_PER_URL

\* A pause after every pass that failed, the last one too.
pause_after_failure(err, a) == err # None

\* The condition of the pause before the next pass (line 318).
pause_before_retry(err, a) == err # None /\ a < MAX_RETRY_PER_URL

\* The variables of a script that is not the one running.
IdleExcel ==
    /\ xlsx = <<>> /\ df = <<>> /\ idx = 0 /\ attempt = 0
    /\ last_error = None /\ stats = None /\ logbuf = <<>> /\ hist = NoHist
    /\ fetcher = None
NoScans == [yields |-> <<>>, scrolls |-> 0, refused |-> FALSE, added |-> 0]
IdleAnalysis ==
    /\ all_video_ids = {} /\ max_total = 0 /\ source = 0
    /\ no_new_rounds = 0 /\ todo = <<>> /\ results = <<>>
    /\ json_out = None /\ scanlog = NoScans
IdleJingxuan ==
    /\ jx_file = <<>> /\ ws = <<>> /\ row = 0 /\ jx_results = <<>>
    /\ jx_json = None
IdleFn == fn_in = <<>> /\ fn_out = None

\* The payloads that the retry loop classifies a success.
SuccessPayloads ==
    {d \in DetailPayloads :
        /\ ~parse_stats_from_aweme_detail(d).raised
        /\ parse_stats_from_aweme_detail(d).val # None
        /\ ~all_null(parse_stats_from_aweme_detail(d).val[1])}
\* The platforms that answer every load of the page of a row with the same
\* successful detail response, on every run.
Fetchers == [start..(end - 1) -> SuccessPayloads]

InitMain ==
    /\ slept = None
    /\ IdleAnalysis /\ IdleJingxuan /\ IdleFn
    /\ prog = "excel"
    /\ pc = "start"
    /\ runs = 1
    /\ xlsx \in {f \in [0..(NRows - 1) -> InitRows] :
                    \A i \in 0..(start - 1) : f[i] = FilledRow(GoodUrl)}
    /\ df = xlsx
    /\ idx = 0
    /\ attempt = 0
    /\ last_error = None
    /\ stats = None
    /\ logbuf = <<>>
    /\ hist = NoHist
InitExcel == InitMain /\ fetcher = None
InitRerun == InitMain /\ fetcher \in {Some(f) : f \in Fetchers}

\* main up to the loop: read the workbook, start the browser, open the home
\* page and wait for the login.
XlStart ==
    /\ prog = "excel" /\ pc = "start"
    /\ df' = read_excel(xlsx)
    /\ logbuf' \in LoginEntries(LoginOrigin)
    /\ idx' = start
    /\ pc' = "item"
    /\ attempt' = 0 /\ last_error' = None /\ stats' = None
    /\ hist' = NoHist
    /\ UNCHANGED <<anVars, jxVars, fnVars, prog, slept, runs, xlsx, fetcher>>

\* The head of the loop body: an invalid URL is recorded and the row is
\* skipped, a valid one starts the retry loop.
XlItem ==
    /\ prog = "excel" /\ pc = "item" /\ idx < end
    /\ IF extract_clean_url(df[idx].URL) = None
       THEN /\ df' = [df EXCEPT ![idx] = MergeFailure(@, "invalid_url")]
            /\ idx' = idx + 1
            /\ UNCHANGED <<pc, attempt, last_error, stats>>
       ELSE /\ last_error' = None
            /\ stats' = None
            /\ attempt' = 1
            /\ pc' = "attempt"
            /\ UNCHANGED <<df, idx>>
    /\ hist' = NoHist
    /\ UNCHANGED <<anVars, jxVars, fnVars, prog, slept, runs, xlsx, logbuf, fetcher>>

\* One pass of the retry loop: driver.get, the wait, the log read, the
\* parse, the classification, and the pause before the next pass.  An
\* exception that escapes ends main through its finally (driver.quit).
XlAttempt ==
    /\ prog = "excel" /\ pc = "attempt"
    /\ \E open_ok \in (IF fetcher = None THEN BOOLEAN ELSE {TRUE}),
          stale_ok \in (IF logbuf = <<>> THEN {TRUE} ELSE BOOLEAN) :
       \E now \in (IF fetcher # None
                   THEN {<<LogEntry(Origin(idx, attempt), DetailUrl,
                                    "application/json", TRUE, fetcher[1][idx])>>}
                   ELSE IF open_ok THEN LoadEntries(Origin(idx, attempt))
                   ELSE {<<>>}),
          late \in (IF open_ok /\ fetcher = None
                    THEN LateEntries(Origin(idx, attempt)) ELSE {<<>>}) :
          \* a body of an earlier page load may be gone from the browser
          \E r \in {AttemptBody(open_ok,
                       collect_json_responses(
                           [i \in 1..Len(logbuf) |->
                               [logbuf[i] EXCEPT !.body_ok = @ /\ stale_ok]]
                           \o now),
                       stats)} :
             LET res == IF r.raised THEN "raise"
                        ELSE IF r.last_error = None THEN "ok"
                        ELSE r.last_error[1]
                 again == loop_continues(r.last_error, attempt)
                 pause == pause_before_retry(r.last_error, attempt)
             IN /\ hist' = [attempts |-> hist.attempts + 1,
                            last |-> res,
                            earlier_ok |-> hist.earlier_ok \/ hist.last = "ok",
                            used |-> r.used,
                            parsed |-> r.parsed,
                            pauses |-> hist.pauses
                                       + (IF ~r.raised /\ pause THEN 1 ELSE 0)]
                /\ slept' = Some(IF ~r.raised /\ pause THEN "retry" ELSE "")
                /\ IF r.raised
                   THEN /\ pc' = "crashed"
                        /\ logbuf' = <<>>
                        /\ UNCHANGED <<attempt, last_error, stats>>
                   ELSE /\ last_error' = r.last_error
                        /\ stats' = r.stats
                        /\ logbuf' = (IF open_ok THEN late ELSE logbuf)
                        /\ IF again
                           THEN pc' = "attempt" /\ attempt' = attempt + 1
                           ELSE pc' = "after_retry" /\ attempt' = attempt
    /\ UNCHANGED <<anVars, jxVars, fnVars, prog, runs, xlsx, df, idx, fetcher>>

\* After the retry loop: record the failure or write the record back.
XlAfterRetry ==
    /\ prog = "excel" /\ pc = "after_retry"
    /\ df' = [df EXCEPT ![idx] =
                IF last_error # None THEN MergeFailure(@, last_error[1])
                ELSE IF stats = None THEN MergeFailure(@, "stats_none_after_retry")
                ELSE MergeSuccess(@, stats[1])]
    /\ idx' = idx + 1
    /\ pc' = "item"
    \* the locals of the loop body are dead until the next row sets them
    /\ attempt' = 0 /\ last_error' = None /\ stats' = None
    /\ hist' = NoHist
    /\ UNCHANGED <<anVars, jxVars, fnVars, prog, slept, runs, xlsx, logbuf, fetcher>>

\* The end of the loop: df.to_excel, then driver.quit.
XlSave ==
    /\ prog = "excel" /\ pc = "item" /\ idx >= end
    /\ xlsx' = to_excel(df)
    /\ pc' = "done"
    /\ logbuf' = <<>>
    /\ UNCHANGED <<anVars, jxVars, fnVars, prog, slept, runs, df, idx, attempt, last_error, stats, hist, fetcher>>

\* The script is started again on the same workbook.
XlRerun ==
    /\ prog = "excel" /\ pc \in {"done", "crashed"} /\ runs < MaxRuns
    /\ runs' = runs + 1
    /\ pc' = "start"
    /\ df' = xlsx
    /\ idx' = 0 /\ attempt' = 0 /\ last_error' = None /\ stats' = None
    /\ hist' = NoHist
    /\ slept' = None
    /\ UNCHANGED <<anVars, jxVars, fnVars, prog, xlsx, logbuf, fetcher>>

NextExcel == XlStart \/ XlItem \/ XlAttempt \/ XlAfterRetry \/ XlSave \/ XlRerun

SpecExcel == InitExcel /\ [][NextExcel]_vars

\* The script run, and run again, against a platform of Fetchers.
SpecRerun == InitRerun /\ [][NextExcel]_vars

(***************************************************************************)
(* Properties of scrape_from_url_excel.main                               *)
(***************************************************************************)
\* A step that writes a successfully parsed record back into row idx.
XlSuccessMergeStep ==
    /\ prog = "excel" /\ pc = "after_retry" /\ pc' = "item"
    /\ last_error = None /\ stats # None

\* A step that records a failure for row idx: the invalid-URL branch, or the
\* branch after a retry loop that ended with an error.
XlFailureMergeStep ==
    /\ prog = "excel" /\ pc' = "item" /\ idx' = idx + 1
    /\ \/ pc = "item"
       \/ pc = "after_retry" /\ last_error # None

\* C1: a successful merge leaves a field that holds a value untouched when
\* the record has None for it, and a field of the persisted workbook that
\* once held a value never becomes empty.
C1_PreserveOnNull ==
    [][ /\ XlSuccessMergeStep =>
             \A f \in StatFields :
                 (~IsEmpty(df[idx][f]) /\ stats[1][f].t = "none")
                     => df'[idx][f] = df[idx][f]
        /\ prog = "excel" =>
             \A i \in DOMAIN xlsx : \A f \in StatFields :
                 ~IsEmpty(xlsx[i][f]) => ~IsEmpty(xlsx'[i][f]) ]_vars

\* C2: recording a failure (invalid_url included) changes only ok, to False,
\* and the error reason, to the reason of the failure; the URL, the
\* identity and the statistics of the row, and every other row, stay as
\* they were.
C2_FailureKeepsStats ==
    [][ XlFailureMergeStep =>
          /\ \A i \in DOMAIN df : i # idx => df'[i] = df[i]
          /\ \A f \in Columns \ {"ok", "err"} : df'[idx][f] = df[idx][f]
          /\ df'[idx].ok = PyBool(FALSE)
          /\ df'[idx].err = PyStr(IF pc = "item" THEN "invalid_url"
                                  ELSE last_error[1]) ]_vars

\* A row that an earlier run filled from a successful fetch (digg 5) and
\* that now carries a failure.
C2_Witness ==
    /\ prog = "excel"
    /\ \E i \in DOMAIN df :
          /\ df[i].digg = PyInt(5)
          /\ df[i].ok = PyBool(FALSE)
          /\ df[i].err = PyStr("no_aweme_detail")

\* C3: the retry loop makes at most MAX_RETRY_PER_URL passes, stops at the
\* first pass classified a success, makes all of them when none succeeds,
\* and then records the reason of the last pass as the row's failure.
C3_RetryCount ==
    [][ prog = "excel" =>
          /\ hist'.attempts <= MAX_RETRY_PER_URL
          /\ ~hist'.earlier_ok
          /\ (pc = "after_retry" /\ pc' = "item") =>
                /\ hist.last = "ok" \/ hist.attempts = MAX_RETRY_PER_URL
                /\ hist.last # "ok" =>
                      /\ df'[idx].ok = PyBool(FALSE)
                      /\ df'[idx].err = PyStr(hist.last) ]_vars

\* Two passes that both found every statistic null: the loop is over.
C3_Witness ==
    /\ prog = "excel" /\ pc = "after_retry"
    /\ hist.attempts = 2 /\ hist.last = "all_null_stats"
    /\ last_error = Some("all_null_stats")

\* C6: no payload makes an exception escape the loop body, so the run
\* always goes on to the next row and to the save.
C6_NoAbort == prog = "excel" => pc # "crashed"

\* C9: the response a pass takes its data from was produced by the page
\* load of that same pass.
C9_OwnResponsesOnly ==
    (prog = "excel" /\ hist.used # None)
        => hist.used[1] = Origin(idx, hist.attempts)

(***************************************************************************)
(* douyin_video_analysis.py: the locator and the normalizer                *)
(***************************************************************************)
DigitChars == {"0", "1", "2", "3", "4", "5", "6", "7", "8", "9"}
DigitVal(c) == CHOOSE d \in 0..9 : CharAt("0123456789", d + 1) = c
AllDigits(s) == s # "" /\ \A i \in 1..Len(s) : CharAt(s, i) \in DigitChars
RECURSIVE DigitsVal(_)
DigitsVal(s) ==
    IF s = "" THEN 0
    ELSE 10 * DigitsVal(SubSeq(s, 1, Len(s) - 1)) + DigitVal(CharAt(s, Len(s)))

\* int(s) for a string: surrounding whitespace, an optional sign, digits.
\* ok is FALSE where Python raises ValueError.
IntOfStr(s) ==
    LET t == Strip(s)
        signed == t # "" /\ CharAt(t, 1) \in {"+", "-"}
        body == IF signed THEN Tail(t) ELSE t
    IN IF AllDigits(body)
       THEN [ok |-> TRUE,
             n |-> IF signed /\ CharAt(t, 1) = "-" THEN -DigitsVal(body)
                   ELSE DigitsVal(body)]
       ELSE [ok |-> FALSE, n |-> 0]

\* int(v): ok is FALSE where Python raises (ValueError for text that is no
\* integer or for NaN, TypeError for None, a dict or a list).
IntOf(v) ==
    CASE v.t \in {"int", "bool"} -> [ok |-> TRUE, n |-> v.n]
      [] v.t = "str" -> IntOfStr(v.s)
      [] OTHER -> [ok |-> FALSE, n |-> 0]

\* The test of walk_find_aweme_nodes: a dict with an identifier key and a
\* statistics key.
is_aweme_node(obj) ==
    /\ obj.t = "dict"
    /\ \E k \in {"awemeId", "awemeIdStr", "aweme_id", "group_id"} : HasKey(obj, k)
    /\ \E k \in {"stats", "statistics"} : HasKey(obj, k)

\* A walk that does not look inside a node it has collected.
RECURSIVE walk_outermost(_), WalkOutermostValues(_, _)
WalkOutermostValues(items, i) ==
    IF i > Len(items) THEN <<>>
    ELSE walk_outermost(items[i].v) \o WalkOutermostValues(items, i + 1)
walk_outermost(obj) ==
    IF is_aweme_node(obj) THEN <<obj>>
    ELSE IF obj.t \in {"dict", "list", "nest"}
    THEN WalkOutermostValues(obj.items, 1)
    ELSE <<>>

\* walk_find_aweme_nodes: the list "found" after the call on obj.
RECURSIVE walk_find_aweme_nodes(_), WalkValues(_, _)
WalkValues(items, i) ==
    IF i > Len(items) THEN <<>>
    ELSE walk_find_aweme_nodes(items[i].v) \o WalkValues(items, i + 1)
walk_find_aweme_nodes(obj) ==
    CASE obj.t = "dict" ->
            (IF is_aweme_node(obj) THEN <<obj>> ELSE <<>>)
            \o WalkValues(obj.items, 1)
      [] obj.t = "list" -> WalkValues(obj.items, 1)
      \* dicts of the one key "c" are no aweme nodes: on to their value
      [] obj.t = "nest" -> WalkValues(obj.items, 1)
      [] OTHER -> <<>>

\* get_id of parse_aweme_from_render_data.
get_id(d) ==
    LET x == PyOr(Get(d, "awemeId"),
             PyOr(Get(d, "awemeIdStr"),
             PyOr(Get(d, "aweme_id"),
             PyOr(Get(d, "group_id"), PyStr("")))))
    IN IF PyToStr(x) = "" THEN None ELSE Some(PyToStr(x))

\* A selection that ignores target_id.
choose_first(candidates, target_id) == candidates[1]

\* A selection that falls back to the last candidate.
choose_or_last(candidates, target_id) ==
    LET hits == {i \in 1..Len(candidates) : get_id(candidates[i]) = target_id}
    IN IF target_id # None /\ hits # {}
       THEN candidates[CHOOSE i \in hits : \A j \in hits : i <= j]
       ELSE candidates[Len(candidates)]

\* The candidate parse_aweme_from_render_data works on (lines 177-196).
choose_candidate(candidates, target_id) ==
    LET hits == {i \in 1..Len(candidates) : get_id(candidates[i]) = target_id}
    IN IF target_id # None /\ hits # {}
       THEN candidates[CHOOSE i \in hits : \A j \in hits : i <= j]
       ELSE candidates[1]

\* One count of the record: int(stats.get(camel) or stats.get(snake) or 0).
count_of(st, camel, snake) ==
    IntOf(PyOr(Get(st, camel), PyOr(Get(st, snake), PyInt(0))))

\* parse_aweme_from_render_data.  It raises when the statistics value is
\* not a dict (AttributeError) and when a count is not accepted by int().
parse_aweme_from_render_data(data, target_id) ==
    LET candidates == walk_find_aweme_nodes(data)
    IN IF candidates = <<>> THEN Return(None)
       ELSE
       LET chosen == choose_candidate(candidates, target_id)
           vid == IF get_id(chosen) # None THEN get_id(chosen)[1]
                  ELSE IF target_id # None THEN target_id[1] ELSE ""
           title == PyOr(Get(chosen, "desc"),
                    PyOr(Get(chosen, "title"),
                    PyOr(Get(chosen, "awemeDesc"), PyStr(""))))
           author == Get(chosen, "author")
           author_name ==
               IF author.t = "dict"
               THEN PyOr(Get(author, "nickname"),
                    PyOr(Get(author, "nicknameName"), PyStr("")))
               ELSE PyStr("")
           st == PyOr(Get(chosen, "stats"),
                 PyOr(Get(chosen, "statistics"), PyDict(<<>>)))
       IN IF st.t # "dict" THEN Raise
          ELSE
          LET digg == count_of(st, "diggCount", "digg_count")
              comment == count_of(st, "commentCount", "comment_count")
              share == count_of(st, "shareCount", "share_count")
              collect == count_of(st, "collectCount", "collect_count")
              play == count_of(st, "playCount", "play_count")
          IN IF ~(digg.ok /\ comment.ok /\ share.ok /\ collect.ok /\ play.ok)
             THEN Raise
             ELSE Return(Some(
                    [aweme_id |-> PyStr(vid),
                     title |-> title,
                     author |-> author_name,
                     digg_count |-> PyInt(digg.n),
                     comment_count |-> PyInt(comment.n),
                     share_count |-> PyInt(share.n),
                     collect_count |-> PyInt(collect.n),
                     play_count |-> PyInt(play.n)]))

\* What session.get and get_render_data_from_html give for one detail page:
\* kind "exception" (the request failed), "status" (not 200), or "html"
\* with the RENDER_DATA JSON found in it (None when there is none).
DetailPage(kind, data) == [kind |-> kind, data |-> data]

\* fetch_aweme_detail: None, the record, or an exception of the parse.
fetch_aweme_detail(page, aweme_id) ==
    IF page.kind # "html" THEN Return(None)
    ELSE IF page.data = None \/ ~Truthy(page.data[1]) THEN Return(None)
    ELSE LET r == parse_aweme_from_render_data(page.data[1], Some(aweme_id))
         IN IF r.raised \/ r.val = None THEN r
            ELSE Return(Some(r.val[1]
                    @@ [url |-> PyStr("https://www.douyin.com/video/" \o aweme_id),
                        detail_url |-> PyStr("https://www.douyin.com/jingxuan?modal_id="
                                             \o aweme_id)]))

(***************************************************************************)
(* douyin_video_analysis.py: the collector and main                        *)
(***************************************************************************)
MaxCap == 3
MaxHits == 2

\* The identifiers the feeds can show (digit strings; the source's have 10
\* to 20 digits).
Ids == {"11", "2", "3"}

\* Sequences over S of length at most n.
SeqsUpTo(S, n) == UNION {[1..k -> S] : k \in 0..n}

\* A snapshot of the page, given by what the two patterns find in it:
\* VIDEO_ID_RE.findall(html) and MODAL_ID_RE.findall(html).
Htmls == {[video |-> v, modal |-> m] : v \in SeqsUpTo(Ids, MaxHits),
                                       m \in SeqsUpTo(Ids, 1)}

\* The loop of collect_ids_from_html without the test of the cap.
RECURSIVE add_ids_unbounded(_, _, _)
add_ids_unbounded(combined_ids, global_ids, cap) ==
    IF combined_ids = <<>> THEN global_ids
    ELSE add_ids_unbounded(Tail(combined_ids),
                           global_ids \cup {Head(combined_ids)}, cap)

\* The loop of collect_ids_from_html (lines 59-62): global_ids after it.
RECURSIVE add_ids(_, _, _)
add_ids(combined_ids, global_ids, cap) ==
    IF combined_ids = <<>> \/ Cardinality(global_ids) >= cap THEN global_ids
    ELSE add_ids(Tail(combined_ids), global_ids \cup {Head(combined_ids)}, cap)

\* collect_ids_from_html: the set after the call and the number it returns.
collect_ids_from_html(html, global_ids, cap) ==
    LET after == add_ids(html.video \o html.modal, global_ids, cap)
    IN [ids |-> after,
        added |-> Cardinality(after) - Cardinality(global_ids)]

\* A loop body that gives up at the first scan without new identifiers.
scroll_loop_body_one_strike(html, global_ids, rounds, cap) ==
    LET c == collect_ids_from_html(html, global_ids, cap)
    IN [ids |-> c.ids, added |-> c.added, rounds |-> 0,
        scrolls |-> IF c.added # 0 /\ Cardinality(c.ids) < cap THEN 1 ELSE 0,
        stop |-> c.added = 0 \/ Cardinality(c.ids) >= cap]

\* A loop body that scrolls on after a scan that filled the set.
scroll_loop_body_past_cap(html, global_ids, rounds, cap) ==
    LET c == collect_ids_from_html(html, global_ids, cap)
    IN [ids |-> c.ids, added |-> c.added,
        rounds |-> IF c.added = 0 THEN 1 ELSE 0,
        scrolls |-> IF c.added = 0 /\ rounds # 0 THEN 0 ELSE 1,
        stop |-> c.added = 0 /\ rounds # 0]

\* A loop body that forgets the strike of a scan without new identifiers.
scroll_loop_body_no_strike(html, global_ids, rounds, cap) ==
    LET c == collect_ids_from_html(html, global_ids, cap)
    IN [ids |-> c.ids, added |-> c.added, rounds |-> 0,
        scrolls |-> IF Cardinality(c.ids) >= cap /\ c.added # 0 THEN 0 ELSE 1,
        stop |-> c.added # 0 /\ Cardinality(c.ids) >= cap]

\* One pass of the while loop of scroll_and_collect_on_page (lines 91-114):
\* the set and the strike count after it, the scroll actions it made, and
\* whether it left the loop.
scroll_loop_body(html, global_ids, rounds, cap) ==
    LET c == collect_ids_from_html(html, global_ids, cap)
    IN IF c.added = 0
       THEN IF rounds = 0
            THEN [ids |-> c.ids, added |-> 0, rounds |-> 1, scrolls |-> 1,
                  stop |-> FALSE]
            ELSE [ids |-> c.ids, added |-> 0, rounds |-> rounds, scrolls |-> 0,
                  stop |-> TRUE]
       ELSE IF Cardinality(c.ids) >= cap
            THEN [ids |-> c.ids, added |-> c.added, rounds |-> 0,
                  scrolls |-> 0, stop |-> TRUE]
            ELSE [ids |-> c.ids, added |-> c.added, rounds |-> 0,
                  scrolls |-> 1, stop |-> FALSE]

\* sorted(all_video_ids): strings in lexicographic order.
RECURSIVE StrLess(_, _)
StrLess(a, b) ==
    IF b = "" THEN FALSE
    ELSE IF a = "" THEN TRUE
    ELSE IF CharAt(a, 1) = CharAt(b, 1) THEN StrLess(Tail(a), Tail(b))
    ELSE DigitVal(CharAt(a, 1)) < DigitVal(CharAt(b, 1))
RECURSIVE sorted(_)
sorted(S) ==
    IF S = {} THEN <<>>
    ELSE LET m == CHOOSE x \in S : \A y \in S \ {x} : StrLess(x, y)
         IN <<m>> \o sorted(S \ {m})

\* The RENDER_DATA of the detail pages the platform can serve.
AwemeNode(idkey, id, stkey, st) == PyDict(<<KV(idkey, id), KV(stkey, st)>>)
CamelStats(digg) ==
    PyDict(<<KV("diggCount", digg), KV("commentCount", PyInt(1)),
             KV("shareCount", PyInt(0)), KV("collectCount", PyInt(2))>>)
RenderTrees ==
    { \* the video asked for, beside another one
      PyDict(<<KV("app", PyList(<<AwemeNode("awemeId", PyStr("3"), "stats",
                                            CamelStats(PyInt(4))),
                                  AwemeNode("awemeId", PyStr("2"), "stats",
                                            CamelStats(PyInt(7)))>>))>>),
      \* a negative count
      PyDict(<<KV("aweme", AwemeNode("aweme_id", PyInt(11), "statistics",
                   PyDict(<<KV("digg_count", PyInt(-5))>>)))>>),
      \* a count shown as text
      PyDict(<<KV("aweme", AwemeNode("awemeId", PyStr("2"), "stats",
                                     CamelStats(PyStr("1.2w"))))>>),
      \* statistics that is a list
      PyDict(<<KV("aweme", AwemeNode("awemeId", PyStr("2"), "stats",
                                     PyList(<<PyInt(1)>>)))>>),
      \* a record whose statistics hold no count at all
      PyDict(<<KV("aweme", AwemeNode("awemeId", PyStr("3"), "stats",
                                     PyDict(<<KV("diggCount", PyNone)>>)))>>),
      \* a zero under the camel-case name, a number under the other one
      PyDict(<<KV("aweme", AwemeNode("awemeId", PyStr("3"), "stats",
                   PyDict(<<KV("diggCount", PyInt(0)),
                            KV("digg_count", PyInt(5)),
                            KV("playCount", PyInt(8))>>)))>>),
      \* no record at all: an identifier without statistics, statistics
      \* without an identifier
      PyDict(<<KV("app", PyDict(<<KV("awemeId", PyStr("2"))>>))>>),
      PyDict(<<KV("app", PyDict(<<KV("stats", CamelStats(PyInt(1)))>>))>>) }

DetailPages ==
    {DetailPage("exception", None), DetailPage("status", None),
     DetailPage("html", None)}
    \cup {DetailPage("html", Some(t)) : t \in RenderTrees}

InitAnalysis ==
    /\ slept = None
    /\ IdleExcel /\ IdleJingxuan /\ IdleFn
    /\ prog = "analysis"
    /\ pc = "open"
    /\ runs = 1
    /\ all_video_ids = {}
    /\ max_total \in 0..MaxCap
    /\ source = 1
    /\ no_new_rounds = 0
    /\ todo = <<>>
    /\ results = <<>>
    /\ json_out = None
    /\ scanlog = NoScans

\* scroll_and_collect_on_page up to its loop: open the page, wait, and test
\* the loop condition for the first time.
AnOpen ==
    /\ prog = "analysis" /\ pc = "open"
    /\ no_new_rounds' = 0
    /\ scanlog' = [NoScans EXCEPT !.added = scanlog.added]
    /\ pc' = IF Cardinality(all_video_ids) < max_total THEN "scan" ELSE "return"
    /\ UNCHANGED <<xlVars, jxVars, fnVars, prog, slept, runs, all_video_ids, max_total,
                   source, todo, results, json_out>>

\* One pass of the loop: read the page, collect, then stop, or scroll and
\* go on.
AnScan ==
    /\ prog = "analysis" /\ pc = "scan"
    /\ \E html \in Htmls :
       \E b \in {scroll_loop_body(html, all_video_ids, no_new_rounds, max_total)} :
          /\ all_video_ids' = b.ids
          /\ no_new_rounds' = b.rounds
          /\ scanlog' = [yields |-> Append(scanlog.yields, b.added > 0),
                         scrolls |-> b.scrolls,
                         refused |-> \E i \in 1..Len(html.video \o html.modal) :
                                        (html.video \o html.modal)[i] \notin b.ids,
                         added |-> scanlog.added + b.added]
          /\ pc' = IF b.stop THEN "return" ELSE "scan"
    /\ UNCHANGED <<xlVars, jxVars, fnVars, prog, slept, runs, max_total, source, todo,
                   results, json_out>>

\* main after a page is done: the second page if the cap is not reached,
\* then the detail loop over the sorted identifiers, or the early return
\* when nothing was collected.
AnNext ==
    /\ prog = "analysis" /\ pc = "return"
    /\ IF source = 1 /\ Cardinality(all_video_ids) < max_total
       THEN /\ source' = 2
            /\ pc' = "open"
            /\ UNCHANGED <<todo, scanlog>>
       ELSE /\ source' = 0
            /\ scanlog' = NoScans
            /\ IF all_video_ids = {}
               THEN pc' = "done" /\ todo' = <<>>
               ELSE pc' = "fetch" /\ todo' = sorted(all_video_ids)
    /\ UNCHANGED <<xlVars, jxVars, fnVars, prog, slept, runs, all_video_ids, max_total,
                   no_new_rounds, results, json_out>>

\* One pass of the detail loop: fetch_aweme_detail, and the append when it
\* gave a record.  An exception of the parse ends main.
AnFetch ==
    /\ prog = "analysis" /\ pc = "fetch" /\ todo # <<>>
    /\ \E page \in DetailPages :
       \E r \in {fetch_aweme_detail(page, Head(todo))} :
          IF r.raised
          THEN pc' = "crashed" /\ UNCHANGED <<todo, results>>
          ELSE /\ pc' = "fetch"
               /\ todo' = Tail(todo)
               /\ results' = IF r.val # None THEN Append(results, r.val[1])
                             ELSE results
    \* nothing is slept between fetch_aweme_detail and the next pass
    /\ slept' = Some("")
    /\ UNCHANGED <<xlVars, jxVars, fnVars, prog, runs, all_video_ids, max_total,
                   source, no_new_rounds, json_out, scanlog>>

\* The end of main: the results are written to the JSON file.
AnWrite ==
    /\ prog = "analysis" /\ pc = "fetch" /\ todo = <<>>
    /\ json_out' = Some(results)
    /\ pc' = "done"
    /\ UNCHANGED <<xlVars, jxVars, fnVars, prog, slept, runs, all_video_ids, max_total,
                   source, no_new_rounds, todo, results, scanlog>>

NextAnalysis == AnOpen \/ AnScan \/ AnNext \/ AnFetch \/ AnWrite

SpecAnalysis == InitAnalysis /\ [][NextAnalysis]_vars

\* The script on its one thread: every call it makes of the browser and of
\* the network returns, so a step that can be taken is taken.
SpecCollect == InitAnalysis /\ [][NextAnalysis]_vars /\ WF_vars(NextAnalysis)

(***************************************************************************)
(* scrape_from_Jingxuan.py                                                 *)
(***************************************************************************)
MAX_DEPTH == 30

\* s.replace(c, "") for a single character c.
RECURSIVE Remove(_, _)
Remove(s, c) ==
    IF s = "" THEN ""
    ELSE (IF CharAt(s, 1) = c THEN "" ELSE CharAt(s, 1)) \o Remove(Tail(s), c)

EndsWith(s, suf) ==
    Len(s) >= Len(suf) /\ SubSeq(s, Len(s) - Len(suf) + 1, Len(s)) = suf

\* s.lower(); the texts of the model hold no capital letter but "W".
RECURSIVE Lower(_)
Lower(s) ==
    IF s = "" THEN ""
    ELSE (IF CharAt(s, 1) = "W" THEN "w" ELSE CharAt(s, 1)) \o Lower(Tail(s))

RECURSIVE Pow10(_)
Pow10(k) == IF k = 0 THEN 1 ELSE 10 * Pow10(k - 1)

\* float(s) for texts made of digits, ".", a sign, blanks and the words
\* "inf" and "nan": ok is FALSE where Python raises ValueError; a finite
\* value is sign * num / 10^k.
NoFloat == [ok |-> FALSE, kind |-> "", sign |-> 1, num |-> 0, k |-> 0]
float_parts(sign, a, b) ==
    IF a = "" /\ b = "" THEN NoFloat
    ELSE IF (a # "" /\ ~AllDigits(a)) \/ (b # "" /\ ~AllDigits(b)) THEN NoFloat
    ELSE [ok |-> TRUE, kind |-> "fin", sign |-> sign,
          num |-> DigitsVal(a \o b), k |-> Len(b)]
float_split(sign, body, dots) ==
    IF Cardinality(dots) > 1 THEN NoFloat
    ELSE IF dots = {} THEN float_parts(sign, body, "")
    ELSE float_parts(sign,
                     SubSeq(body, 1, (CHOOSE i \in dots : TRUE) - 1),
                     SubSeq(body, (CHOOSE i \in dots : TRUE) + 1, Len(body)))
float_body(sign, body) ==
    IF body \in {"inf", "infinity"}
    THEN [ok |-> TRUE, kind |-> "inf", sign |-> sign, num |-> 0, k |-> 0]
    ELSE IF body = "nan"
    THEN [ok |-> TRUE, kind |-> "nan", sign |-> sign, num |-> 0, k |-> 0]
    ELSE float_split(sign, body,
                     {i \in 1..Len(body) : CharAt(body, i) = "."})
float_stripped(t) ==
    IF t # "" /\ CharAt(t, 1) = "-" THEN float_body(-1, Tail(t))
    ELSE IF t # "" /\ CharAt(t, 1) = "+" THEN float_body(1, Tail(t))
    ELSE float_body(1, t)
float_of_str(s) == float_stripped(Strip(s))

\* The run of digits that starts at position i of s.
RECURSIVE DigitRun(_, _)
DigitRun(s, i) ==
    IF i > Len(s) \/ CharAt(s, i) \notin DigitChars THEN ""
    ELSE CharAt(s, i) \o DigitRun(s, i + 1)

\* re.search(r"\d+(\.\d+)?", s): the text of the leftmost match, "" when
\* there is none.
first_number(s) ==
    LET starts == {i \in 1..Len(s) : CharAt(s, i) \in DigitChars}
    IN IF starts = {} THEN ""
       ELSE LET i == CHOOSE x \in starts : \A y \in starts : x <= y
                a == DigitRun(s, i)
                j == i + Len(a)
                b == IF j <= Len(s) /\ CharAt(s, j) = "."
                     THEN DigitRun(s, j + 1) ELSE ""
            IN IF b = "" THEN a ELSE a \o "." \o b

\* Binary floating point (IEEE 754 double, what a Python float is).  A
\* positive double is [m, pt]: MantBits bits m, the first of them 1, and
\* the number pt of them that stand before the binary point; its value is
\* 0.m[1]m[2]... * 2^pt.  The arithmetic works on limbs of 8 bits, so that
\* every intermediate number fits a machine integer; a natural number has
\* at most 31 bits, and 10 limbs of a fraction hold more than MantBits
\* bits after the first 1 of any quotient by a power of ten up to 10^6.
MantBits == 53

RECURSIVE Pow2(_)
Pow2(n) ==
    IF n = 0 THEN 1
    ELSE IF n % 2 = 1 THEN 2 * Pow2(n - 1)
    ELSE Pow2(n \div 2) * Pow2(n \div 2)

\* The n bits of the natural number q < 2^n, the most significant first.
NatBits(q, n) == [i \in 1..n |-> (q \div Pow2(n - i)) % 2]
RECURSIVE NatOfBits(_)
NatOfBits(bits) ==
    IF bits = <<>> THEN 0
    ELSE IF Len(bits) = 1 THEN bits[1]
    ELSE NatOfBits(SubSeq(bits, 1, Len(bits) \div 2))
            * Pow2(Len(bits) - Len(bits) \div 2)
         + NatOfBits(SubSeq(bits, Len(bits) \div 2 + 1, Len(bits)))

\* bits from its first 1 on.
Significant(bits) ==
    IF \A i \in DOMAIN bits : bits[i] = 0 THEN <<>>
    ELSE SubSeq(bits,
                CHOOSE i \in DOMAIN bits :
                    bits[i] = 1 /\ \A j \in 1..(i - 1) : bits[j] = 0,
                Len(bits))

\* The first n limbs of the binary fraction r / T, and what is left of r
\* after them.
RECURSIVE FracBits(_, _, _)
FracBits(r, T, n) ==
    IF n = 0 THEN <<>>
    ELSE NatBits((r * 256) \div T, 8) \o FracBits((r * 256) % T, T, n - 1)
RECURSIVE FracRem(_, _, _)
FracRem(r, T, n) ==
    IF n = 0 THEN r ELSE FracRem((r * 256) % T, T, n - 1)

\* bits + 1, for bits that are not all 1.
AddOne(bits) ==
    LET j == CHOOSE i \in DOMAIN bits :
                 bits[i] = 0 /\ \A k \in (i + 1)..Len(bits) : bits[k] = 1
    IN [i \in DOMAIN bits |->
           IF i < j THEN bits[i] ELSE IF i = j THEN 1 ELSE 0]

\* Rounding to MantBits bits, to nearest, ties to even.
RoundBits(bits, sticky, pt) ==
    IF ~(/\ bits[MantBits + 1] = 1
         /\ \/ sticky
            \/ bits[MantBits] = 1
            \/ \E i \in (MantBits + 2)..Len(bits) : bits[i] = 1)
    THEN [m |-> SubSeq(bits, 1, MantBits), pt |-> pt]
    ELSE IF \A i \in 1..MantBits : bits[i] = 1
    THEN [m |-> [i \in 1..MantBits |-> IF i = 1 THEN 1 ELSE 0], pt |-> pt + 1]
    ELSE [m |-> AddOne(SubSeq(bits, 1, MantBits)), pt |-> pt]

\* The double nearest to num / T, for num > 0.
double_of_ratio(num, T) ==
    RoundBits(Significant(NatBits(num \div T, 31) \o FracBits(num % T, T, 10)),
              FracRem(num % T, T, 10) # 0,
              31 - Len(NatBits(num \div T, 31))
                 + Len(Significant(NatBits(num \div T, 31)
                                      \o FracBits(num % T, T, 10)))
                 - 80)

\* The bits of bits * c + carry, for whole limbs bits and a small natural
\* number c.
RECURSIVE MulBits(_, _, _)
MulBits(bits, c, carry) ==
    IF bits = <<>> THEN NatBits(carry, 31)
    ELSE MulBits(SubSeq(bits, 1, Len(bits) - 8), c,
                 (NatOfBits(SubSeq(bits, Len(bits) - 7, Len(bits))) * c
                     + carry) \div 256)
         \o NatBits((NatOfBits(SubSeq(bits, Len(bits) - 7, Len(bits))) * c
                        + carry) % 256,
                    8)

\* The double f * c.
double_times(f, c) ==
    RoundBits(Significant(MulBits(<<0, 0, 0>> \o f.m, c, 0)), FALSE,
              f.pt + Len(Significant(MulBits(<<0, 0, 0>> \o f.m, c, 0)))
                   - MantBits)

\* int(f) for a positive double below 2^31.
int_of_double(f) == IF f.pt <= 0 THEN 0 ELSE NatOfBits(SubSeq(f.m, 1, f.pt))

\* int(float(num_txt)).
int_of_float(f) ==
    IF f.num = 0 THEN 0
    ELSE f.sign * int_of_double(double_of_ratio(f.num, Pow10(f.k)))
\* int(val * 10000).
int_of_float_times(f, c) ==
    IF f.num = 0 THEN 0
    ELSE f.sign * int_of_double(double_times(double_of_ratio(f.num, Pow10(f.k)), c))

\* parse_count_text.  The function raises OverflowError for an infinite
\* numeric part.
\* Lines 66-75: the first number of the text.
count_from_match(num_txt) ==
    IF num_txt = "" THEN Return(0)
    ELSE IF IsSubstr(".", num_txt)
    THEN Return(int_of_float(float_of_str(num_txt)))
    ELSE Return(IntOfStr(num_txt).n)
\* Lines 62-75: int(s), and the first number of the text when it raises.
count_plain(s, n) ==
    IF n.ok THEN Return(n.n) ELSE count_from_match(first_number(s))
\* Lines 55-59: int(val * 10000).
count_wan(val) ==
    IF ~val.ok THEN Return(0)
    ELSE IF val.kind = "inf" THEN Raise
    ELSE IF val.kind = "nan" THEN Return(0)
    ELSE Return(int_of_float_times(val, 10000))
\* Lines 48-75, on the text without blanks at its ends and without commas.
count_of_text(s) ==
    IF s \in {"<dianzan>", "<pinglun>", "<fenxiang>", "<shoucang>", "-", "~"}
    THEN Return(0)
    ELSE IF EndsWith(s, "%") \/ EndsWith(Lower(s), "w")
    THEN count_wan(float_of_str(SubSeq(s, 1, Len(s) - 1)))
    ELSE count_plain(s, IntOfStr(s))
parse_count_text(text) ==
    IF text = "" THEN Return(0)
    ELSE count_of_text(Remove(Remove(Strip(text), ","), ";"))

\* extract_first_url: the first http(s) link of a text, None when there is
\* none.
extract_first_url(text) ==
    IF text = "" THEN None
    ELSE LET t == Strip(text)
             Hit(i) == \E p \in {"http://", "https://"} :
                          /\ StartsWith(SubSeq(t, i, Len(t)), p)
                          /\ NonSpaceRun(t, i + Len(p)) # ""
             hits == {i \in 1..Len(t) : Hit(i)}
         IN IF hits = {} THEN None
            ELSE LET m == CHOOSE i \in hits : \A j \in hits : i <= j
                 IN Some(RStripChars(NonSpaceRun(t, m),
                                     {";", ".", "!", "?", ",", ")", ">"}))

\* The dict find_stats_in_json builds from a node that has the four keys:
\* None when an int() raises (the exception is swallowed).
four_counts(obj) ==
    LET c(k) == IntOf(PyOr(Get(obj, k), PyInt(0)))
    IN IF c("diggCount").ok /\ c("commentCount").ok /\ c("shareCount").ok
          /\ c("collectCount").ok
       THEN Some([digg |-> c("diggCount").n, comment |-> c("commentCount").n,
                  share |-> c("shareCount").n, collect |-> c("collectCount").n])
       ELSE None

\* A search that takes the children in their order, the statistics keys as
\* any other key.
RECURSIVE find_stats_plain(_, _), FindPlainInValues(_, _, _)
FindPlainInValues(items, i, depth) ==
    IF i > Len(items) THEN None
    ELSE IF find_stats_plain(items[i].v, depth) # None
    THEN find_stats_plain(items[i].v, depth)
    ELSE FindPlainInValues(items, i + 1, depth)
find_stats_plain(obj, depth) ==
    IF depth > MAX_DEPTH \/ obj.t \notin {"dict", "list", "nest"} THEN None
    ELSE IF obj.t = "nest"
    THEN IF depth + obj.n - 1 > MAX_DEPTH THEN None
         ELSE FindPlainInValues(obj.items, 1, depth + obj.n)
    ELSE IF obj.t = "dict"
            /\ (\A k \in {"diggCount", "commentCount", "shareCount",
                           "collectCount"} : HasKey(obj, k))
            /\ four_counts(obj) # None
    THEN four_counts(obj)
    ELSE FindPlainInValues(obj.items, 1, depth + 1)

\* find_stats_in_json: the first statistics found, None when there are none.
RECURSIVE find_stats_in_json(_, _), FindInValues(_, _, _)
FindInValues(items, i, depth) ==
    IF i > Len(items) THEN None
    ELSE LET found == find_stats_in_json(items[i].v, depth)
         IN IF found # None THEN found ELSE FindInValues(items, i + 1, depth)
find_stats_in_json(obj, depth) ==
    IF depth > MAX_DEPTH THEN None
    ELSE IF obj.t = "dict"
    THEN LET wanted == {"diggCount", "commentCount", "shareCount", "collectCount"}
             here == IF \A k \in wanted : HasKey(obj, k) THEN four_counts(obj)
                     ELSE None
             Special(k) == IF HasKey(obj, k) /\ Get(obj, k).t \in {"dict", "list"}
                           THEN find_stats_in_json(Get(obj, k), depth + 1)
                           ELSE None
         IN IF here # None THEN here
            ELSE IF Special("stats") # None THEN Special("stats")
            ELSE IF Special("statistics") # None THEN Special("statistics")
            ELSE FindInValues(obj.items, 1, depth + 1)
    ELSE IF obj.t = "list" THEN FindInValues(obj.items, 1, depth + 1)
    \* n dicts of the one key "c", at depth, depth + 1, ...: each of them
    \* passes the test of the depth or ends the search, has not the four
    \* keys and no statistics key, and goes on to its value one deeper
    ELSE IF obj.t = "nest"
    THEN IF depth + obj.n - 1 > MAX_DEPTH THEN None
         ELSE FindInValues(obj.items, 1, depth + obj.n)
    ELSE None

\* What the selectors of one metric find on the page, in the order they
\* are tried: <<>> when there is no such element, <<text>> otherwise.
\* The result is the value set for the metric: None when no selector gave
\* a non-blank text.
metric_value(r) == IF r.raised THEN Raise ELSE Return(Some(r.val))
RECURSIVE scrape_metric(_)
scrape_metric(css_list) ==
    IF css_list = <<>> THEN Return(None)
    ELSE IF Head(css_list) = <<>> \/ Strip(Head(css_list)[1]) = ""
    THEN scrape_metric(Tail(css_list))
    ELSE metric_value(parse_count_text(Strip(Head(css_list)[1])))

\* The loop over the metrics (lines 255-275): it ends at the first metric
\* that is not found.
dom_result(digg, comment, share, collect) ==
    IF digg.raised THEN Raise
    ELSE IF digg.val = None THEN Return(None)
    ELSE IF comment.raised THEN Raise
    ELSE IF comment.val = None THEN Return(None)
    ELSE IF share.raised THEN Raise
    ELSE IF share.val = None THEN Return(None)
    ELSE IF collect.raised THEN Raise
    ELSE IF collect.val = None THEN Return(None)
    ELSE Return(Some([digg |-> digg.val[1], comment |-> comment.val[1],
                      share |-> share.val[1], collect |-> collect.val[1]]))

\* try_scrape_stats_from_dom: None as soon as one metric is not found.
try_scrape_stats_from_dom(dom) ==
    dom_result(scrape_metric(dom.digg), scrape_metric(dom.comment),
               scrape_metric(dom.share), scrape_metric(dom.collect))

\* A page as the browser shows it: whether goto_video_page got a URL, what
\* the selectors find, and the JSON get_render_data_json returns.
JxPage(opened, dom, render) == [opened |-> opened, dom |-> dom, render |-> render]

\* fetch_stats_for_one_url after the DOM was tried (lines 340-360).
after_dom(page, dom_stats) ==
    IF dom_stats.raised THEN Raise
    ELSE IF dom_stats.val # None THEN dom_stats
    ELSE IF page.render = None \/ ~Truthy(page.render[1]) THEN Return(None)
    ELSE Return(find_stats_in_json(page.render[1], 0))

\* fetch_stats_for_one_url.
fetch_stats_for_one_url(page) ==
    IF ~page.opened THEN Return(None)
    ELSE after_dom(page, try_scrape_stats_from_dom(page.dom))

\* The sheet: the link cell (column M) and the four statistics cells.
JxRow(link, digg, comment, share, collect) ==
    [link |-> link, digg |-> digg, comment |-> comment, share |-> share,
     collect |-> collect]
JxInitRows ==
    {JxRow(GoodUrl, PyNone, PyNone, PyNone, PyNone),
     JxRow(GoodUrl, PyInt(50), PyInt(4), PyInt(2), PyInt(3)),
     JxRow(PyStr("n/a"), PyInt(50), PyInt(4), PyInt(2), PyInt(3)),
     JxRow(PyNone, PyNone, PyNone, PyNone, PyNone)}

Dom(digg, comment, share, collect) ==
    [digg |-> digg, comment |-> comment, share |-> share, collect |-> collect]
NoDom == Dom(<<None, None>>, <<None>>, <<None>>, <<None, None>>)
CamelCounts(digg) ==
    PyDict(<<KV("diggCount", digg), KV("commentCount", PyInt(1)),
             KV("shareCount", PyInt(0)), KV("collectCount", PyInt(2))>>)
JxPages ==
    { \* the link does not open
      JxPage(FALSE, NoDom, None),
      \* every metric on the page
      JxPage(TRUE, Dom(<<Some("12"), None>>, <<Some("1.5w")>>, <<Some("3")>>,
                       <<Some("4"), None>>), None),
      \* a text with a minus sign; the first selector shows nothing
      JxPage(TRUE, Dom(<<Some(" "), Some("-5")>>, <<Some("1")>>, <<Some("1")>>,
                       <<None, Some("1,5")>>), None),
      \* an infinite numeric part
      JxPage(TRUE, Dom(<<Some("infw"), None>>, <<Some("1")>>, <<Some("1")>>,
                       <<Some("1"), None>>), None),
      \* one metric missing, statistics in RENDER_DATA
      JxPage(TRUE, Dom(<<Some("12"), None>>, <<Some("1")>>, <<None>>,
                       <<Some("4"), None>>),
             Some(PyDict(<<KV("app", PyDict(<<KV("stats",
                                                 CamelCounts(PyInt(7)))>>))>>))),
      \* nothing on the page, statistics in RENDER_DATA that int() refuses
      JxPage(TRUE, NoDom,
             Some(PyDict(<<KV("stats", CamelCounts(PyStr("1.2w")))>>))),
      \* nothing at all
      JxPage(TRUE, NoDom, None) }

InitJingxuan ==
    /\ slept = None
    /\ IdleExcel /\ IdleAnalysis /\ IdleFn
    /\ prog = "jingxuan"
    /\ pc = "load"
    /\ runs = 1
    /\ jx_file \in [2..(NRows + 1) -> JxInitRows]
    /\ ws = <<>>
    /\ row = 0
    /\ jx_results = <<>>
    /\ jx_json = None

\* process_excel up to its loop: load_workbook.
JxLoad ==
    /\ prog = "jingxuan" /\ pc = "load"
    /\ ws' = jx_file
    /\ row' = 2
    /\ jx_results' = <<>>
    /\ pc' = "loop"
    /\ UNCHANGED <<xlVars, anVars, fnVars, prog, slept, runs, jx_file, jx_json>>

\* One pass of the loop of process_excel (lines 378-409).
JxItem ==
    /\ prog = "jingxuan" /\ pc = "loop" /\ row \in DOMAIN ws
    /\ \E url \in {IF Truthy(ws[row].link)
                   THEN extract_first_url(PyToStr(ws[row].link)) ELSE None} :
          IF url = None
          THEN /\ row' = row + 1
               /\ UNCHANGED <<pc, ws, jx_results, slept>>
          ELSE \E page \in JxPages :
               \E r \in {fetch_stats_for_one_url(page)} :
                  IF r.raised
                  THEN /\ pc' = "crashed"
                       /\ slept' = Some("")
                       /\ UNCHANGED <<ws, row, jx_results>>
                  ELSE /\ row' = row + 1
                       /\ pc' = pc
                       \* time.sleep(random.uniform(SLEEP_MIN, SLEEP_MAX)),
                       \* whatever the fetch gave (lines 390-392)
                       /\ slept' = Some("item")
                       /\ IF r.val = None
                          THEN UNCHANGED <<ws, jx_results>>
                          ELSE /\ ws' = [ws EXCEPT ![row] =
                                           [@ EXCEPT
                                              !.digg = PyInt(r.val[1].digg),
                                              !.comment = PyInt(r.val[1].comment),
                                              !.share = PyInt(r.val[1].share),
                                              !.collect = PyInt(r.val[1].collect)]]
                               /\ jx_results' =
                                    Append(jx_results,
                                           [row |-> row, url |-> url[1],
                                            stats |-> r.val[1]])
    /\ UNCHANGED <<xlVars, anVars, fnVars, prog, runs, jx_file, jx_json>>

\* The end of process_excel: the JSON file and the workbook are written;
\* each write can fail, which is reported and swallowed.
JxSave ==
    /\ prog = "jingxuan" /\ pc = "loop" /\ row \notin DOMAIN ws
    /\ \E json_ok \in BOOLEAN, save_ok \in BOOLEAN :
          /\ jx_json' = IF json_ok THEN Some(jx_results) ELSE jx_json
          /\ jx_file' = IF save_ok THEN ws ELSE jx_file
    /\ pc' = "done"
    /\ UNCHANGED <<xlVars, anVars, fnVars, prog, slept, runs, ws, row, jx_results>>

NextJingxuan == JxLoad \/ JxItem \/ JxSave

SpecJingxuan == InitJingxuan /\ [][NextJingxuan]_vars

(***************************************************************************)
(* The pure functions, called on their own.                                *)
(***************************************************************************)
MaxLen == 3

\* The signs a count text is made of.
TextSigns == {"1", "5", ".", "-", "w", "%", ",", " ", "inf", "nan"}
RECURSIVE TextsOfLen(_)
TextsOfLen(n) ==
    IF n = 0 THEN {""}
    ELSE {c \o t : c \in TextSigns, t \in TextsOfLen(n - 1)}
\* Texts the page shows, and texts of other signs.
SampleTexts ==
    {"1.2%", "1.2W", "1,234", "~", "<dianzan>", "abc99x", "1.13%", "0.57w",
     "12.5w", "2;345", "3.99", "x7.25y8", "-2.5%"}
Texts == UNION {TextsOfLen(n) : n \in 0..MaxLen} \cup SampleTexts

\* Candidate trees with several qualifying nodes.  Every node has its own
\* digg count, so that a record tells which node it was made from.
LocatorNodes ==
    {AwemeNode("awemeId", PyStr("1"), "stats",
               PyDict(<<KV("diggCount", PyInt(1))>>)),
     AwemeNode("awemeId", PyStr("2"), "stats",
               PyDict(<<KV("diggCount", PyInt(2))>>)),
     PyDict(<<KV("awemeId", PyStr("")), KV("aweme_id", PyInt(2)),
              KV("statistics", PyDict(<<KV("digg_count", PyInt(3))>>))>>),
     AwemeNode("group_id", PyStr("1"), "statistics",
               PyDict(<<KV("digg_count", PyInt(4))>>)),
     \* an identifier key without an identifier
     AwemeNode("awemeId", PyNone, "stats",
               PyDict(<<KV("diggCount", PyInt(5))>>))}
WithChild(node, child) ==
    [node EXCEPT !.items = Append(@, KV("related", PyList(<<child>>)))]
LocatorTrees ==
    {PyList(<<a, b>>) : a, b \in LocatorNodes}
    \cup {PyDict(<<KV("x", PyDict(<<KV("y", a)>>)), KV("z", b)>>) :
             a, b \in LocatorNodes}
    \cup {WithChild(a, b) : a, b \in LocatorNodes}
    \cup {PyDict(<<KV("n", PyInt(1)),
                   KV("l", PyList(<<PyStr("s"), WithChild(a, b), c>>))>>) :
             a, b, c \in LocatorNodes}
TargetIds == {None, Some("1"), Some("2"), Some("3")}

\* Trees that go down to the depth ceiling of find_stats_in_json and below
\* it: a record under n mappings of one key.
Nest(n, leaf) == IF n = 0 THEN leaf ELSE PyNest(n, leaf)
DeepTrees ==
    {Nest(n, AwemeNode("awemeId", PyStr("3"), "stats", CamelStats(PyInt(4)))) :
        n \in (MAX_DEPTH - 1)..(MAX_DEPTH + 1)}

\* Trees for find_stats_in_json: two children of a mapping, under a
\* statistics key or another key, that hold the four counts as numbers (each
\* with its own digg count), with a count that is no number, inside a list
\* or a mapping, or not at all.
StatsLeaves ==
    {CamelStats(PyInt(4)), CamelStats(PyInt(7)), CamelStats(PyStr("1.2w")),
     PyStr("x"), PyList(<<CamelStats(PyInt(9))>>),
     PyDict(<<KV("deep", CamelStats(PyInt(5)))>>)}
StatsTrees ==
    {PyDict(<<KV(k[1], a), KV(k[2], b)>>) :
        k \in {<<"other", "stats">>, <<"stats", "other">>,
               <<"other", "statistics">>, <<"statistics", "stats">>,
               <<"a", "b">>},
        a \in StatsLeaves, b \in StatsLeaves}

FnCall(op, arg, target_id) == [op |-> op, arg |-> arg, target_id |-> target_id]
FnCalls ==
    {FnCall("parse_count_text", t, None) : t \in Texts}
    \cup {FnCall("parse_aweme_from_render_data", d, t) :
             d \in LocatorTrees \cup RenderTrees \cup DeepTrees, t \in TargetIds}
    \cup {FnCall("parse_stats_from_aweme_detail", d, None) :
             d \in DetailPayloads \cup {FeedPayload, StatsOnlyPayload}}
    \cup {FnCall("find_stats_in_json", d, None) :
             d \in RenderTrees \cup DeepTrees \cup StatsTrees
                   \cup {p.render[1] : p \in {q \in JxPages : q.render # None}}}

InitFn ==
    /\ slept = None
    /\ IdleExcel /\ IdleAnalysis /\ IdleJingxuan
    /\ prog = "fn"
    /\ pc = "call"
    /\ runs = 1
    /\ fn_in \in FnCalls
    /\ fn_out = None

FnReturn(op, result) ==
    /\ prog = "fn" /\ pc = "call" /\ fn_in.op = op
    /\ fn_out' = Some(result)
    /\ pc' = "returned"
    /\ UNCHANGED <<xlVars, anVars, jxVars, prog, slept, runs, fn_in>>

FnParseCountText ==
    FnReturn("parse_count_text", parse_count_text(fn_in.arg))
FnParseAweme ==
    FnReturn("parse_aweme_from_render_data",
             parse_aweme_from_render_data(fn_in.arg, fn_in.target_id))
FnParseStats ==
    FnReturn("parse_stats_from_aweme_detail",
             parse_stats_from_aweme_detail(fn_in.arg))
FnFindStats ==
    FnReturn("find_stats_in_json", Return(find_stats_in_json(fn_in.arg, 0)))

NextFn == FnParseCountText \/ FnParseAweme \/ FnParseStats \/ FnFindStats

SpecFn == InitFn /\ [][NextFn]_vars

(***************************************************************************)
(* Properties of the collector and of main of douyin_video_analysis.py.    *)
(***************************************************************************)

\* C4: the collected identifier set never holds more than max_total
\* identifiers, in every state of the collection, and every identifier is in
\* it once: the added counts returned by the scans sum to the size of the
\* set, and the list the detail loop works on names each identifier once.
C4_DedupWithinCap ==
    prog = "analysis" =>
        /\ Cardinality(all_video_ids) <= max_total
        /\ pc \in {"open", "scan", "return"} =>
              scanlog.added = Cardinality(all_video_ids)
        /\ pc = "fetch" =>
              /\ Len(todo) <= max_total
              /\ \A i, j \in 1..Len(todo) : todo[i] = todo[j] => i = j

\* A scan that found an identifier the full set had no room for.
C4_Witness ==
    /\ prog = "analysis" /\ pc \in {"scan", "return"}
    /\ max_total > 0
    /\ Cardinality(all_video_ids) = max_total
    /\ scanlog.refused

\* C5: below the cap, scroll_and_collect_on_page leaves a page exactly when
\* the last two scans of the page both found nothing new; after a first
\* scan without yield it scrolls once and scans again; a scan with yield
\* resets the strike count; so yields (new, none, none) end after exactly
\* three scans.
C5_TwoStrikes ==
    (prog = "analysis" /\ pc \in {"scan", "return"} /\ scanlog.yields # <<>>) =>
        LET y == scanlog.yields
            n == Len(y)
            two_zero == n >= 2 /\ ~y[n] /\ ~y[n - 1]
        IN /\ Cardinality(all_video_ids) < max_total =>
                 (pc = "return" <=> two_zero)
           /\ \A i \in 2..(n - 1) : y[i] \/ y[i - 1]
           /\ (pc = "scan" /\ ~y[n]) =>
                 (scanlog.scrolls = 1 /\ no_new_rounds = 1)
           /\ y[n] => no_new_rounds = 0
           /\ y = <<TRUE, FALSE>> => pc = "scan"
           /\ y = <<TRUE, FALSE, FALSE>> => pc = "return"

\* A page left below the cap after the scans (new, none, none).
C5_Witness ==
    /\ prog = "analysis" /\ pc = "return"
    /\ scanlog.yields = <<TRUE, FALSE, FALSE>>
    /\ Cardinality(all_video_ids) < max_total

\* C7: when main has written the JSON file, every identifier that was
\* collected has an outcome in it.
C7_EveryItemHasOutcome ==
    (prog = "analysis" /\ pc = "done" /\ json_out # None) =>
        \A id \in all_video_ids :
            \E i \in 1..Len(json_out[1]) :
                json_out[1][i].url = PyStr("https://www.douyin.com/video/" \o id)

(***************************************************************************)
(* Properties of the pure functions.                                       *)
(***************************************************************************)

\* The places of a tree: the index paths from the root.
RECURSIVE Paths(_)
Paths(v) ==
    {<<>>} \cup
    (IF v.t \in {"dict", "list", "nest"}
     THEN UNION {{<<i>> \o q : q \in Paths(v.items[i].v)} : i \in 1..Len(v.items)}
     ELSE {})
RECURSIVE NodeAt(_, _)
NodeAt(v, path) ==
    IF path = <<>> THEN v ELSE NodeAt(v.items[Head(path)].v, Tail(path))

\* Place a comes before place b when the tree is walked parent first, the
\* children in their order.
Before(a, b) ==
    /\ a # b
    /\ \/ Len(a) < Len(b) /\ SubSeq(b, 1, Len(a)) = a
       \/ \E i \in 1..Len(a) :
             /\ i <= Len(b)
             /\ SubSeq(a, 1, i - 1) = SubSeq(b, 1, i - 1)
             /\ a[i] < b[i]
FirstPlace(P) == CHOOSE a \in P : \A b \in P \ {a} : Before(a, b)

\* A qualifying node: a mapping with an identifier key and a statistics key.
Qualifies(node) ==
    /\ node.t = "dict"
    /\ {node.items[i].k : i \in 1..Len(node.items)}
          \cap {"awemeId", "awemeIdStr", "aweme_id", "group_id"} # {}
    /\ {node.items[i].k : i \in 1..Len(node.items)} \cap {"stats", "statistics"} # {}

\* The resolved identifier of a node: the first of the four keys, in this
\* order, whose value is not empty (a value Python counts as true), as text.
ResolvedId(node) ==
    LET keys == <<"awemeId", "awemeIdStr", "aweme_id", "group_id">>
        set == {i \in 1..4 : Truthy(Get(node, keys[i]))}
    IN IF set = {} THEN None
       ELSE Some(PyToStr(Get(node, keys[CHOOSE i \in set : \A j \in set : i <= j])))

\* The digg count a node carries (None when it carries none).
DiggOf(node) ==
    LET st == PyOr(Get(node, "stats"), Get(node, "statistics"))
    IN PyOr(Get(st, "diggCount"), Get(st, "digg_count"))

\* C8: parse_aweme_from_render_data works on the first node, in
\* parent-before-children order, whose resolved identifier equals target_id
\* when there is such a node, and with target_id = None on the first
\* qualifying node in that order; the record it returns is made from that
\* node.
C8_LocatorSelects ==
    (prog = "fn" /\ pc = "returned"
     /\ fn_in.op = "parse_aweme_from_render_data") =>
        LET data == fn_in.arg
            Q == {a \in Paths(data) : Qualifies(NodeAt(data, a))}
            M == {a \in Q : ResolvedId(NodeAt(data, a)) = fn_in.target_id}
            expected == IF fn_in.target_id # None /\ M # {}
                        THEN Some(NodeAt(data, FirstPlace(M)))
                        ELSE IF fn_in.target_id = None /\ Q # {}
                        THEN Some(NodeAt(data, FirstPlace(Q)))
                        ELSE None
        IN expected # None =>
              /\ choose_candidate(walk_find_aweme_nodes(data), fn_in.target_id)
                    = expected[1]
              /\ ~fn_out[1].raised =>
                    /\ fn_out[1].val # None
                    /\ DiggOf(expected[1]).t = "int" =>
                          fn_out[1].val[1].digg_count = DiggOf(expected[1])
                    /\ ResolvedId(expected[1]) # None =>
                          fn_out[1].val[1].aweme_id
                             = PyStr(ResolvedId(expected[1])[1])

\* A tree whose first qualifying node has another identifier than the
\* target, and a record made from a later node that has the target's.
C8_Witness ==
    /\ prog = "fn" /\ pc = "returned"
    /\ fn_in.op = "parse_aweme_from_render_data"
    /\ fn_in.arg \in LocatorTrees
    /\ fn_in.target_id = Some("2")
    /\ get_id(walk_find_aweme_nodes(fn_in.arg)[1]) = Some("1")
    /\ ~fn_out[1].raised
    /\ fn_out[1].val[1].aweme_id = PyStr("2")
    /\ fn_out[1].val[1].digg_count \in {PyInt(2), PyInt(3)}

\* A count that is a non-negative integer, or absent.
IsCount(v) == v.t \in {"none", "nan"} \/ (v.t = "int" /\ v.n >= 0)

\* C10: every count that parse_count_text, parse_aweme_from_render_data and
\* parse_stats_from_aweme_detail return is a non-negative integer or absent.
C10_CountsNonNegative ==
    (prog = "fn" /\ pc = "returned" /\ ~fn_out[1].raised) =>
        CASE fn_in.op = "parse_count_text" -> fn_out[1].val >= 0
          [] fn_in.op = "parse_aweme_from_render_data" ->
                fn_out[1].val # None =>
                   \A f \in {"digg_count", "comment_count", "share_count",
                             "collect_count", "play_count"} :
                      IsCount(fn_out[1].val[1][f])
          [] fn_in.op = "parse_stats_from_aweme_detail" ->
                fn_out[1].val # None =>
                   \A f \in CountFields : IsCount(fn_out[1].val[1][f])
          [] OTHER -> TRUE

\* C11: parse_count_text returns an integer for every text, and never
\* raises.
C11_CountTextTotal ==
    (prog = "fn" /\ pc = "returned" /\ fn_in.op = "parse_count_text") =>
        ~fn_out[1].raised

\* C12: parse_count_text removes the separators, gives 0 for a sentinel,
\* gives the numeric part times 10000, truncated, for a text that ends in
\* the magnitude suffix, else the plain integer, else the first number of
\* the text with its decimals cut off.  The products are exact here.
C12_DecodesByUnit ==
    (prog = "fn" /\ pc = "returned" /\ fn_in.op = "parse_count_text"
     /\ ~fn_out[1].raised) =>
        LET s == Remove(Remove(Strip(fn_in.arg), ","), ";")
            part == float_of_str(SubSeq(s, 1, Len(s) - 1))
            found == float_of_str(first_number(s))
        IN CASE s \in {"", "-", "~", "<dianzan>", "<pinglun>", "<fenxiang>",
                       "<shoucang>"} ->
                  fn_out[1].val = 0
             [] EndsWith(s, "%") \/ EndsWith(s, "w") \/ EndsWith(s, "W") ->
                  (part.ok /\ part.kind = "fin") =>
                     fn_out[1].val
                        = part.sign * ((part.num * 10000) \div Pow10(part.k))
             [] IntOfStr(s).ok -> fn_out[1].val = IntOfStr(s).n
             [] first_number(s) # "" ->
                  fn_out[1].val = found.num \div Pow10(found.k)
             [] OTHER -> fn_out[1].val = 0

\* C13: when every page load answers with the same successful detail
\* response of its row, the workbook that the second run saves is, field by
\* field, the workbook that the first run saved.
C13_IdempotentRerun ==
    [][(prog = "excel" /\ fetcher # None /\ runs >= 2
        /\ pc = "item" /\ pc' = "done") => xlsx' = xlsx]_vars
\* The second run has saved a workbook with a row that it filled from the
\* response of the platform and a row whose link it refused.
C13_Witness ==
    /\ prog = "excel" /\ fetcher # None /\ runs = 2 /\ pc = "done"
    /\ \E i \in start..(end - 1) :
          /\ xlsx[i].ok = PyBool(TRUE)
          /\ xlsx[i].digg = parse_stats_from_aweme_detail(fetcher[1][i]).val[1].digg
    /\ \E i \in start..(end - 1) : xlsx[i].err = PyStr("invalid_url")

\* The statistics mapping of a located node, as line 218 takes it.
StatsOf(node) ==
    PyOr(Get(node, "stats"), PyOr(Get(node, "statistics"), PyDict(<<>>)))
CountKeys ==
    {"diggCount", "digg_count", "commentCount", "comment_count", "shareCount",
     "share_count", "collectCount", "collect_count", "playCount", "play_count"}
\* The node has none of the five counts.
CountsMissing(node) ==
    StatsOf(node).t = "dict" /\ \A k \in CountKeys : Get(StatsOf(node), k).t = "none"
\* The node of a detail page that the record for aweme_id is read from.
Located(page, aweme_id) ==
    IF page.kind = "html" /\ page.data # None /\ Truthy(page.data[1])
       /\ walk_find_aweme_nodes(page.data[1]) # <<>>
    THEN Some(choose_candidate(walk_find_aweme_nodes(page.data[1]),
                               Some(aweme_id)))
    ELSE None

\* C14: a located record with none of its five counts present is a failure
\* of the attempt, never a success: the detail loop does not append the
\* record of a node that has no count.
C14_AllNullNotMerged ==
    [][(prog = "analysis" /\ pc = "fetch" /\ todo # <<>>) =>
          \A page \in DetailPages :
             (/\ Located(page, Head(todo)) # None
              /\ CountsMissing(Located(page, Head(todo))[1])
              /\ ~fetch_aweme_detail(page, Head(todo)).raised
              /\ fetch_aweme_detail(page, Head(todo)).val # None)
                => results' # Append(results,
                                     fetch_aweme_detail(page, Head(todo)).val[1])
      ]_vars

\* C15: once the set holds max_total identifiers, the page is not scanned
\* and not scrolled again, and no further page is opened: the scan that
\* fills the set makes no scroll and leaves the loop, and main does not go
\* on to the second page.  (Only the first page can be open with a full
\* set, when max_total is 0: it is opened before the set is looked at.)
C15_CapStopsAll ==
    (prog = "analysis" /\ Cardinality(all_video_ids) >= max_total) =>
        /\ pc # "scan"
        /\ pc = "open" => (source = 1 /\ all_video_ids = {})
        /\ scanlog.scrolls = 0
\* A scan of the first page has just filled the set.
C15_Witness ==
    /\ prog = "analysis" /\ pc = "return" /\ source = 1
    /\ max_total > 0 /\ Cardinality(all_video_ids) = max_total
    /\ scanlog.yields # <<>> /\ scanlog.yields[Len(scanlog.yields)]

\* The names of the four counts that every record has, and of the play
\* count: the field of the record, and the keys of the node it is read from.
RequiredCounts ==
    {<<"digg_count", "diggCount", "digg">>,
     <<"comment_count", "commentCount", "comment">>,
     <<"share_count", "shareCount", "share">>,
     <<"collect_count", "collectCount", "collect">>}
\* The aweme mapping that parse_stats_from_aweme_detail reads (lines 183-189).
DetailAweme(data) ==
    IF Truthy(Get(data, "aweme_detail")) THEN Get(data, "aweme_detail")
    ELSE Get(data, "aweme_list").items[1].v

\* C16: the record of a located node has 0 for each of digg, comment,
\* share and collect that the node does not have, and has no play count
\* (None, not 0) when the node has none.
C16_MissingCounts ==
    (prog = "fn" /\ pc = "returned" /\ ~fn_out[1].raised
     /\ fn_in.op \in {"parse_aweme_from_render_data",
                      "parse_stats_from_aweme_detail"}
     /\ fn_out[1].val # None) =>
        IF fn_in.op = "parse_aweme_from_render_data"
        THEN LET st == StatsOf(choose_candidate(
                           walk_find_aweme_nodes(fn_in.arg), fn_in.target_id))
             IN /\ \A c \in RequiredCounts :
                      (~HasKey(st, c[1]) /\ ~HasKey(st, c[2]))
                          => fn_out[1].val[1][c[1]] = PyInt(0)
                /\ (~HasKey(st, "play_count") /\ ~HasKey(st, "playCount"))
                       => fn_out[1].val[1].play_count.t = "none"
        ELSE LET st == PyOr(Get(DetailAweme(fn_in.arg), "statistics"),
                            PyDict(<<>>))
             IN /\ \A c \in RequiredCounts :
                      ~HasKey(st, c[1]) => fn_out[1].val[1][c[3]] = PyInt(0)
                /\ ~HasKey(st, "play_count")
                       => fn_out[1].val[1].play.t = "none"

\* What the keys camel, then snake, of the mapping st give when the first of
\* them that is there with a value other than None is taken.
FirstPresent(st, camel, snake) ==
    IF Get(st, camel).t # "none" THEN Get(st, camel) ELSE Get(st, snake)

\* C17: a count of the record is the value under the camel-case key when
\* that key is there with a value, and the value under the snake-case key
\* only when it is not; a 0 under the camel-case key is the count.
C17_FirstKeyWins ==
    (prog = "fn" /\ pc = "returned" /\ ~fn_out[1].raised
     /\ fn_in.op = "parse_aweme_from_render_data" /\ fn_out[1].val # None) =>
        LET st == StatsOf(choose_candidate(walk_find_aweme_nodes(fn_in.arg),
                                           fn_in.target_id))
        IN \A c \in RequiredCounts \cup {<<"play_count", "playCount", "play">>} :
              FirstPresent(st, c[2], c[1]).t = "int"
                  => fn_out[1].val[1][c[1]] = FirstPresent(st, c[2], c[1])

\* How many steps place p is below the root of the tree v.
RECURSIVE Depth(_, _)
Depth(v, p) ==
    IF p = <<>> THEN 0
    ELSE (IF v.t = "nest" THEN v.n ELSE 1)
         + Depth(v.items[Head(p)].v, Tail(p))
\* The places of a tree that are at most MAX_DEPTH steps below its root.
WithinCeiling(v) == {p \in Paths(v) : Depth(v, p) <= MAX_DEPTH}

\* C18: neither locator looks below the depth ceiling: find_stats_in_json
\* gives None, and walk_find_aweme_nodes collects nothing, when the tree has
\* what they look for only below it.
C18_DepthCeiling ==
    (prog = "fn" /\ pc = "returned") =>
        /\ fn_in.op = "find_stats_in_json" =>
              (fn_out[1].val # None =>
                  \E p \in WithinCeiling(fn_in.arg) :
                      /\ NodeAt(fn_in.arg, p).t = "dict"
                      /\ four_counts(NodeAt(fn_in.arg, p)) = fn_out[1].val)
        /\ fn_in.op = "parse_aweme_from_render_data" =>
              ((\A p \in WithinCeiling(fn_in.arg) :
                    ~Qualifies(NodeAt(fn_in.arg, p)))
                  => /\ walk_find_aweme_nodes(fn_in.arg) = <<>>
                     /\ fn_out[1] = Return(None))

\* The places of a tree, at most MAX_DEPTH steps below its root, where a
\* mapping has the four count keys; and those of them whose four values
\* int() accepts.
HasFourKeys(v) ==
    {p \in WithinCeiling(v) :
        /\ NodeAt(v, p).t = "dict"
        /\ \A k \in {"diggCount", "commentCount", "shareCount", "collectCount"} :
              HasKey(NodeAt(v, p), k)}
Matching(v) == {p \in HasFourKeys(v) : four_counts(NodeAt(v, p)) # None}
\* The places of P below place q of the tree v that are reached through the
\* stats or statistics child of q.
ThroughStats(v, q, P) ==
    {p \in P : /\ Len(p) > Len(q) /\ SubSeq(p, 1, Len(q)) = q
               /\ NodeAt(v, q).items[p[Len(q) + 1]].k \in {"stats", "statistics"}}
\* The call on the mapping at place q gives the statistics of a place of P
\* reached through its stats or statistics child, when there is one.
PrefersStats(v, q, P) ==
    ThroughStats(v, q, P) # {} =>
        \E p \in ThroughStats(v, q, P) :
            find_stats_in_json(NodeAt(v, q), Depth(v, q))
                = four_counts(NodeAt(v, p))

C20_CollectsAllQualifying ==
    (prog = "fn" /\ pc = "returned"
     /\ fn_in.op = "parse_aweme_from_render_data") =>
        LET Q == {p \in Paths(fn_in.arg) : Qualifies(NodeAt(fn_in.arg, p))}
            found == walk_find_aweme_nodes(fn_in.arg)
        IN /\ Len(found) = Cardinality(Q)
           /\ \A p \in Q : \E i \in 1..Len(found) : found[i] = NodeAt(fn_in.arg, p)
           /\ \A i \in 1..Len(found) : \E p \in Q : found[i] = NodeAt(fn_in.arg, p)
           /\ (fn_out[1] = Return(None)) <=> (Q = {})
\* A tree with a qualifying node inside another one: both are collected.
C20_Witness ==
    /\ prog = "fn" /\ pc = "returned"
    /\ fn_in.op = "parse_aweme_from_render_data"
    /\ \E a, b \in LocatorNodes : a # b /\ fn_in.arg = WithChild(a, b)
    /\ Len(walk_find_aweme_nodes(fn_in.arg)) = 2
    /\ ~fn_out[1].raised /\ fn_out[1].val # None

(***************************************************************************)
(* Properties of the pauses.                                               *)
(***************************************************************************)
\* The script is about to fetch the page of an item: the first pass of the
\* retry loop of a row, a pass of the detail loop, a row with a link.
FetchOfItemStarts ==
    \/ prog = "excel" /\ pc = "attempt" /\ attempt = 1
    \/ prog = "analysis" /\ pc = "fetch" /\ todo # <<>>
    \/ /\ prog = "jingxuan" /\ pc = "loop" /\ row \in DOMAIN ws
       /\ Truthy(ws[row].link)
       /\ extract_first_url(PyToStr(ws[row].link)) # None

\* C21: the fetch of an item never starts unless the pause between items
\* was slept after the fetch of the item before it, whether that one
\* succeeded or failed.
C21_CooldownBetweenItems ==
    FetchOfItemStarts => slept \in {None, Some("item")}

\* C22: collection terminates. scroll_and_collect_on_page returns for each
\* page, whatever the page shows at each scan: every scan adds an identifier
\* to the set, which the cap bounds, or is a strike, the first of which is
\* followed by one more scan and the second by the return; so a page is
\* scanned at most 2 * max_total times.
C22_CollectionTerminates ==
    /\ (prog = "analysis" /\ pc \in {"open", "scan"}) ~> (pc = "return")
    /\ [][ (prog = "analysis" /\ pc = "scan") =>
             \/ Cardinality(all_video_ids') > Cardinality(all_video_ids)
             \/ /\ all_video_ids' = all_video_ids
                /\ \/ no_new_rounds = 0 /\ no_new_rounds' = 1 /\ pc' = "scan"
                   \/ no_new_rounds = 1 /\ pc' = "return" ]_vars
    /\ [](prog = "analysis" => Len(scanlog.yields) <= 2 * max_total)

\* A page that showed new identifiers at every other scan only, and has
\* returned.
C22_Witness ==
    /\ prog = "analysis" /\ pc = "return"
    /\ scanlog.yields = <<TRUE, FALSE, TRUE, FALSE, TRUE>>

\* C23: with a target_id that no qualifying node resolves to,
\* parse_aweme_from_render_data does not give None when there are qualifying
\* nodes: it works on the first of them in parent-before-children order, and
\* the aweme_id of its record is the identifier that node resolves to, or
\* target_id when the node resolves to none.
C23_FallbackToFirst ==
    (prog = "fn" /\ pc = "returned"
     /\ fn_in.op = "parse_aweme_from_render_data" /\ fn_in.target_id # None) =>
        LET data == fn_in.arg
            Q == {a \in Paths(data) : Qualifies(NodeAt(data, a))}
            M == {a \in Q : ResolvedId(NodeAt(data, a)) = fn_in.target_id}
        IN (Q # {} /\ M = {}) =>
              /\ fn_out[1] # Return(None)
              /\ choose_candidate(walk_find_aweme_nodes(data), fn_in.target_id)
                    = NodeAt(data, FirstPlace(Q))
              /\ ~fn_out[1].raised =>
                    /\ DiggOf(NodeAt(data, FirstPlace(Q))).t = "int" =>
                          fn_out[1].val[1].digg_count
                             = DiggOf(NodeAt(data, FirstPlace(Q)))
                    /\ fn_out[1].val[1].aweme_id =
                          PyStr(IF ResolvedId(NodeAt(data, FirstPlace(Q))) # None
                                THEN ResolvedId(NodeAt(data, FirstPlace(Q)))[1]
                                ELSE fn_in.target_id[1])

\* Several qualifying nodes, none of them the target "3": the record is
\* made from the first one, which is not the last one, and has its
\* identifier.
C23_Witness ==
    /\ prog = "fn" /\ pc = "returned"
    /\ fn_in.op = "parse_aweme_from_render_data"
    /\ fn_in.arg \in LocatorTrees
    /\ fn_in.target_id = Some("3")
    /\ Len(walk_find_aweme_nodes(fn_in.arg)) = 3
    /\ get_id(walk_find_aweme_nodes(fn_in.arg)[1]) = Some("1")
    /\ get_id(walk_find_aweme_nodes(fn_in.arg)[3]) = None
    /\ ~fn_out[1].raised
    /\ fn_out[1].val[1].aweme_id = PyStr("1")
    /\ fn_out[1].val[1].digg_count \in {PyInt(1), PyInt(4)}

\* C24: in the retry loop a pause of RETRY_WAIT_SECONDS lies exactly between
\* a failed pass and the next pass of the same row: before every pass but
\* the first the loop has slept once for each pass made, which all failed;
\* after the pass that ends the loop, a success or the last allowed one,
\* nothing was slept, so that k passes have k - 1 pauses.
C24_BackoffBetweenAttempts ==
    prog = "excel" =>
        /\ pc = "attempt" =>
              /\ hist.attempts = attempt - 1
              /\ hist.pauses = hist.attempts
              /\ hist.attempts >= 1 =>
                    /\ hist.last \notin {"ok", "raise"}
                    /\ slept = Some("retry")
        /\ pc \in {"after_retry", "crashed"} =>
              /\ hist.pauses = hist.attempts - 1
              /\ slept = Some("")
              /\ pc = "after_retry" =>
                    hist.last = "ok" \/ hist.attempts = MAX_RETRY_PER_URL

\* A pass that failed, the pause, and a second pass that succeeded.
C24_Witness ==
    /\ prog = "excel" /\ pc = "after_retry"
    /\ hist.attempts = 2 /\ hist.pauses = 1 /\ hist.last = "ok"
    /\ slept = Some("")

(***************************************************************************)
(* Properties of the rows.                                                 *)
(***************************************************************************)
\* A row whose ok is True with no error reason, or False with one.
OkIffNoReason(r) ==
    \/ r.ok = PyBool(TRUE) /\ IsEmpty(r.err)
    \/ r.ok = PyBool(FALSE) /\ r.err.t = "str" /\ r.err.s # ""

\* C25: every row the loop has processed has ok = True exactly when it has
\* no error reason; writing a record back sets ok = True and empties the
\* reason an earlier failure left, recording a failure sets ok = False and a
\* reason that is not empty; and a row outside range(start, end) is never
\* changed, in memory or in the workbook.
C25_OkIffNoReason ==
    [][ prog = "excel" =>
          /\ \A i \in start..(idx' - 1) : OkIffNoReason(df'[i])
          /\ pc' = "done" =>
                \A i \in start..(end - 1) : OkIffNoReason(xlsx'[i])
          /\ XlSuccessMergeStep =>
                df'[idx].ok = PyBool(TRUE) /\ IsEmpty(df'[idx].err)
          /\ XlFailureMergeStep =>
                /\ df'[idx].ok = PyBool(FALSE)
                /\ df'[idx].err.t = "str" /\ df'[idx].err.s # ""
          /\ \A i \in DOMAIN xlsx \ (start..(end - 1)) :
                /\ xlsx'[i] = xlsx[i]
                /\ pc \notin {"start", "done", "crashed"} => df'[i] = df[i] ]_vars

\* A row that the first run left with a failure and that the second run has
\* written a record to: ok is True and the reason is gone.
C25_Witness ==
    /\ prog = "excel" /\ runs = 2 /\ pc = "item"
    /\ \E i \in start..(idx - 1) :
          /\ xlsx[i].ok = PyBool(FALSE)
          /\ xlsx[i].err = PyStr("all_null_stats")
          /\ df[i].ok = PyBool(TRUE)
          /\ IsEmpty(df[i].err)

\* C26: the retry loop makes a pass, and when it ends with last_error = None
\* its last pass was classified a success and stats is the record that pass
\* parsed, with a statistic in it; so no row ever gets the reason
\* "stats_none_after_retry".
C26_DefensiveUnreachable ==
    prog = "excel" =>
        /\ (pc = "after_retry" /\ last_error = None) =>
              /\ hist.attempts >= 1
              /\ hist.last = "ok"
              /\ stats # None
              /\ stats = hist.parsed
              /\ ~all_null(stats[1])
        /\ \A i \in DOMAIN df :
              /\ df[i].err # PyStr("stats_none_after_retry")
              /\ xlsx[i].err # PyStr("stats_none_after_retry")

\* The loop has ended with last_error = None after a pass that did not
\* open the page, or found nothing, and a second pass.
C26_Witness ==
    /\ prog = "excel" /\ pc = "after_retry"
    /\ last_error = None
    /\ attempt = MAX_RETRY_PER_URL
    /\ stats = hist.parsed /\ stats # None
    /\ stats[1].digg.t = "int"

====
